---- MODULE Spec2Model ----
(***************************************************************************)
(* Model of the dashboard aggregator (scripts/aggregate.mjs, main).        *)
(*                                                                         *)
(* Conventions                                                             *)
(*  - money is an integer number of thousandths of a currency unit, so     *)
(*    that sub-cent ad costs (cost_micros / 1e6) and the 2-decimal         *)
(*    rounding of round() are both visible;                                *)
(*  - a week string 'YYYY-MM-DD' is the tuple <<YYYY, MM, DD>> and the     *)
(*    empty string '' is the empty tuple; JavaScript's default string      *)
(*    order on such zero-padded strings is the lexicographic order of      *)
(*    the tuples, and slice(0, 7) is the prefix of length two;             *)
(*  - a field that is absent (undefined) holds the value Undef.            *)
(*                                                                         *)
(* Scope: the ad, charge, deal, form-submission and purchase sources, the  *)
(* lookup maps, the enrichment passes, the week list, the weekly ads,      *)
(* funnel and Stripe buckets, the monthly buckets, the KPIs and the        *)
(* written output, and the subscription source with its weekly metrics    *)
(* and snapshot.  The list ga4Forms of the output, a field-wise copy of    *)
(* the form submissions, is not represented.  The pure functions of the    *)
(* fetchers and of the utilities are operators, each applied by an action  *)
(* of its own to the argument in arg.  The asynchronous functions of the   *)
(* fetch layer (retry, the Stripe pagination loops) are state machines of  *)
(* their own: locals holds the local variables of the running function,    *)
(* effects the calls, requests, answers and timers it has caused so far.   *)
(***************************************************************************)
EXTENDS Integers, Sequences, FiniteSets, TLC

VARIABLES raw, googleAds, stripeCharges, hubspotDeals, formSubmissions,
          ga4Purchases, formToChannel, txLookup, weeks, weeklyAds,
          weeklyFunnel, weeklyStripe, monthlyData, kpis, output, pc,
          stripeSubs, subSnapshot, weeklySubMetrics, previous, arg, ret,
          locals, effects

vars == <<raw, googleAds, stripeCharges, hubspotDeals, formSubmissions,
          ga4Purchases, formToChannel, txLookup, weeks, weeklyAds,
          weeklyFunnel, weeklyStripe, monthlyData, kpis, output, pc,
          stripeSubs, subSnapshot, weeklySubMetrics, previous, arg, ret,
          locals, effects>>

(***************************************************************************)
(* JavaScript values                                                       *)
(***************************************************************************)
Undef == "undefined"

\* truthiness of a string-valued field: undefined and '' are falsy
Truthy(s) == s # Undef /\ s # ""

\* a variant that passes an absent value on
OrElseAbsent(x, d) == x

\* x || d on string-valued fields
OrElse(x, d) == IF Truthy(x) THEN x ELSE d

NoWeek == <<>>

\* a week that is absent (undefined): sort() puts it after every string, and
\* as a property key it is a key of its own
UndefWeek == <<9999>>

\* truthiness of a week: the empty string and undefined are falsy
HasWeek(w) == w # NoWeek /\ w # UndefWeek

SeqsUpTo(S, n) == UNION {[1..k -> S] : k \in 0..n}

Range(s) == {s[i] : i \in 1..Len(s)}

RECURSIVE SumSeq(_)
SumSeq(s) == IF s = <<>> THEN 0 ELSE Head(s) + SumSeq(Tail(s))


\* Math.round(n * 100) / 100 on thousandths: nearest cent, halves upwards
RoundCents(v) == ((v + 5) \div 10) * 10

\* round(n) with the default of two decimals
round(v) == RoundCents(v)

\* a number of the output, or the NaN / Infinity a division by zero leaves
Num(x) == [kind |-> "num", v |-> x]
NaN == [kind |-> "NaN", v |-> 0]
Infinity == [kind |-> "Infinity", v |-> 0]

\* JavaScript n / d followed by Math.round(q * scale): nearest, halves upwards
JsRoundDiv(n, d, scale) ==
  IF d = 0 THEN (IF n = 0 THEN NaN ELSE Infinity)
  ELSE Num((2 * n * scale + d) \div (2 * d))

\* round(n / d * 100, 1), in tenths of a percent
RoundPct(n, d) == JsRoundDiv(n, d, 1000)

\* round(n / d, 2), in hundredths
RoundRatio(n, d) == JsRoundDiv(n, d, 100)

(***************************************************************************)
(* String order and the sorted week list                                   *)
(***************************************************************************)
RECURSIVE StrLess(_, _)
StrLess(a, b) ==
  IF a = <<>> THEN b # <<>>
  ELSE IF b = <<>> THEN FALSE
  ELSE IF Head(a) # Head(b) THEN Head(a) < Head(b)
  ELSE StrLess(Tail(a), Tail(b))

RECURSIVE SortStrings(_)
SortStrings(S) ==
  IF S = {} THEN <<>>
  ELSE LET m == CHOOSE x \in S : \A y \in S \ {x} : StrLess(x, y)
       IN <<m>> \o SortStrings(S \ {m})

\* dateStr.slice(0, 7)
getMonth(w) == IF Len(w) <= 2 THEN w ELSE SubSeq(w, 1, 2)

(***************************************************************************)
(* Input records.  The sets below are the records the fetchers can write   *)
(* to raw/ that the runs of the model draw their input arrays from.        *)
(***************************************************************************)
W1 == <<2025, 6, 2>>
W2 == <<2025, 6, 9>>
W3 == <<2025, 7, 7>>
W0 == <<2024, 12, 30>>

Ad(week, cost, country, product, userType, campaignType) ==
  [week |-> week, cost |-> cost, country |-> country, product |-> product,
   userType |-> userType, campaignType |-> campaignType]

\* rows of raw/google-ads.json: cost is cost_micros / 1e6, here in thousandths
AdRows ==
  { Ad(W1, 100000, "NL", "Transcription", "Other", "NB"),
    Ad(W1, 200000, "DE", "Subtitles", "Machine-Made", "NB"),
    Ad(W1, 50000, "FR", "Transcription", "Human-Made", "NB"),
    Ad(W1, 5, "NL", "Transcription", "Machine-Made", "NB"),
    Ad(W1, 5, "DE", "AI Meeting Notes", "Other", "NB"),
    Ad(W1, 5, "FR", "Subtitles", "Human-Made", "NB"),
    Ad(W1, 5, "IT", "Brand", "Brand", "Brand"),
    Ad(W3, 1234, "NL", "Brand", "Brand", "Brand") }

NoMeta == [key |-> <<>>, jobType |-> Undef, paymentIdentifier |-> Undef,
           uploadBatchId |-> Undef]

\* a charge in the flat shape of raw/stripe-charges.json
Charge(week, amount, planType, planSubtype, product, country, payId, upId) ==
  [week |-> week, amount |-> amount, currency |-> "EUR", planType |-> planType,
   planSubtype |-> planSubtype, product |-> product, country |-> country,
   paymentIdentifier |-> payId, uploadBatchId |-> upId,
   hasMetadata |-> FALSE, metadata |-> NoMeta, description |-> {},
   channel |-> Undef, campaign |-> Undef]

\* a charge in the legacy shape: no planType, a metadata blob and a free-text
\* description (modelled as the set of keywords the description contains)
LegacyCharge(week, amount, key, jobType, payId, upId, desc) ==
  [week |-> week, amount |-> amount, currency |-> "EUR", planType |-> Undef,
   planSubtype |-> Undef, product |-> Undef, country |-> Undef,
   paymentIdentifier |-> Undef, uploadBatchId |-> Undef,
   hasMetadata |-> TRUE,
   metadata |-> [key |-> key, jobType |-> jobType, paymentIdentifier |-> payId,
                 uploadBatchId |-> upId],
   description |-> desc, channel |-> Undef, campaign |-> Undef]

Deal(createWeek, formId, lifecycleStage, status, amount) ==
  [createWeek |-> createWeek, formId |-> formId,
   lifecycleStage |-> lifecycleStage, status |-> status, amount |-> amount,
   channel |-> Undef]

Form(week, formId, channel, count) ==
  [week |-> week, formId |-> formId, channel |-> channel, count |-> count]

Purchase(week, transactionId, channel, campaign) ==
  [week |-> week, transactionId |-> transactionId, channel |-> channel,
   campaign |-> campaign, transactions |-> 1, revenue |-> 10000]

\* a file of raw/: whether it exists, whether JSON.parse accepts its text,
\* whether the parsed value is an array, and the parsed value
File(exists, parses, isArray, data) ==
  [exists |-> exists, parses |-> parses, isArray |-> isArray, data |-> data]

ArrayFile(data) == File(TRUE, TRUE, TRUE, data)
ObjectFile(data) == File(TRUE, TRUE, FALSE, data)
MissingFile == File(FALSE, TRUE, FALSE, <<>>)
CorruptFile == File(TRUE, FALSE, FALSE, <<>>)

\* null
Null == [kind |-> "null"]

\* the files of raw/ as the run finds them, here without stripe-subs.json
Raw(ads, charges, deals, forms, purchases) ==
  [ads |-> ArrayFile(ads), charges |-> ArrayFile(charges),
   deals |-> ArrayFile(deals),
   ga4 |-> ObjectFile([formSubmissions |-> forms, purchases |-> purchases]),
   subs |-> MissingFile]

\* raw/ with a stripe-charges.json that is not JSON
CorruptRaw == [Raw(<<>>, <<>>, <<>>, <<>>, <<>>) EXCEPT !.charges = CorruptFile]

NoOutput == [written |-> FALSE]

\* the state in which main() starts, for a given content of raw/
Start(r) ==
  /\ raw = r
  /\ googleAds = <<>>
  /\ stripeCharges = <<>>
  /\ hubspotDeals = <<>>
  /\ formSubmissions = <<>>
  /\ ga4Purchases = <<>>
  /\ formToChannel = <<>>
  /\ txLookup = <<>>
  /\ weeks = <<>>
  /\ weeklyAds = <<>>
  /\ weeklyFunnel = <<>>
  /\ weeklyStripe = <<>>
  /\ monthlyData = <<>>
  /\ kpis = <<>>
  /\ output = NoOutput
  /\ pc = "load"
  /\ stripeSubs = <<>>
  /\ subSnapshot = Null
  /\ weeklySubMetrics = <<>>
  /\ previous = NoOutput
  /\ arg = <<>>
  /\ ret = <<>>
  /\ locals = <<>>
  /\ effects = <<>>

(***************************************************************************)
(* main: LOAD RAW DATA                                                     *)
(***************************************************************************)
\* loadRaw(file) || []
loadRaw(f) == IF f.exists THEN f.data ELSE <<>>

\* a variant that takes an array for the form submissions of the bundle
ga4OfArrayAsForms(f) ==
  IF f.exists /\ ~f.isArray THEN f.data
  ELSE IF f.exists THEN [formSubmissions |-> f.data, purchases |-> <<>>]
  ELSE [formSubmissions |-> <<>>, purchases |-> <<>>]

\* loadRaw('ga4.json') || {...}, an array being replaced by the empty bundle
ga4Of(f) ==
  IF f.exists /\ ~f.isArray THEN f.data
  ELSE [formSubmissions |-> <<>>, purchases |-> <<>>]

\* stripSubsRaw?.subscriptions || []: an array has no property subscriptions
stripeSubsOf(f) == IF f.exists /\ ~f.isArray THEN f.data.subscriptions ELSE <<>>

\* stripSubsRaw?.snapshot || null
subSnapshotOf(f) == IF f.exists /\ ~f.isArray THEN f.data.snapshot ELSE Null

\* a variant in which no file makes JSON.parse throw
throwsNever(f) == FALSE

\* JSON.parse throws on the text of the file
throws(f) == f.exists /\ ~f.parses

RawFiles == {"ads", "charges", "deals", "ga4", "subs"}

Load ==
  /\ pc = "load"
  /\ \A f \in RawFiles : ~throws(raw[f])
  /\ googleAds' = loadRaw(raw.ads)
  /\ stripeCharges' = loadRaw(raw.charges)
  /\ hubspotDeals' = loadRaw(raw.deals)
  /\ formSubmissions' = ga4Of(raw.ga4).formSubmissions
  /\ ga4Purchases' = ga4Of(raw.ga4).purchases
  /\ stripeSubs' = stripeSubsOf(raw.subs)
  /\ subSnapshot' = subSnapshotOf(raw.subs)
  /\ pc' = "lookups"
  /\ UNCHANGED <<raw, formToChannel, txLookup, weeks, weeklyAds, weeklyFunnel,
                 weeklyStripe, monthlyData, kpis, output, weeklySubMetrics,
                 previous, arg, ret,
                 locals, effects>>

\* JSON.parse throws in a loadRaw call: the exception leaves main, whose
\* call is the last statement of the script
LoadAbort ==
  /\ pc = "load"
  /\ \E f \in RawFiles : throws(raw[f])
  /\ pc' = "threw"
  /\ UNCHANGED <<raw, googleAds, stripeCharges, hubspotDeals, formSubmissions,
                 ga4Purchases, formToChannel, txLookup, weeks, weeklyAds,
                 weeklyFunnel, weeklyStripe, monthlyData, kpis, output,
                 stripeSubs, subSnapshot, weeklySubMetrics, previous, arg, ret,
                 locals, effects>>

(***************************************************************************)
(* main: BUILD LOOKUP TABLES                                               *)
(***************************************************************************)
\* the distinct elements of a sequence, in the order of their first occurrence
\* (the insertion order of the keys of an object)
RECURSIVE FirstSeen(_)
FirstSeen(s) ==
  IF s = <<>> THEN <<>>
  ELSE LET init == FirstSeen(SubSeq(s, 1, Len(s) - 1))
           last == s[Len(s)]
       IN IF last \in Range(init) THEN init ELSE Append(init, last)

\* formChannelMap[formId][channel]: the summed count of the submissions
Tally(forms, formId, channel) ==
  LET fs == SelectSeq(forms, LAMBDA f : f.formId = formId /\ f.channel = channel)
  IN SumSeq([i \in 1..Len(fs) |-> fs[i].count])

\* the canonical numeric strings: the property names that an object enumerates
\* as integer indices, in ascending numeric order
ArrayIndices == <<"0", "1", "2", "3", "4", "5", "6", "7", "8", "9", "10">>

\* Object.entries(obj): the integer indices in ascending numeric order, then
\* the other names in insertion order
ownKeys(inserted) ==
  SelectSeq(ArrayIndices, LAMBDA k : k \in Range(inserted))
    \o SelectSeq(inserted, LAMBDA k : k \notin Range(ArrayIndices))

\* a variant that takes the channel of the first submission of the form
TopChannelFirstSeen(forms, formId) ==
  LET fs == SelectSeq(forms, LAMBDA f : f.formId = formId)
  IN fs[1].channel

\* Object.entries(channels).sort((a, b) => b[1] - a[1])[0][0]: the sort is
\* stable, so the first of the channels with the highest tally, in the order
\* in which Object.entries enumerates them
TopChannel(forms, formId) ==
  LET fs == SelectSeq(forms, LAMBDA f : f.formId = formId)
      order == ownKeys(FirstSeen([i \in 1..Len(fs) |-> fs[i].channel]))
      best == CHOOSE i \in 1..Len(order) :
                /\ \A j \in 1..Len(order) :
                     Tally(forms, formId, order[j]) <= Tally(forms, formId, order[i])
                /\ \A j \in 1..(i - 1) :
                     Tally(forms, formId, order[j]) < Tally(forms, formId, order[i])
  IN order[best]

buildFormToChannel(forms) ==
  LET ids == {f.formId : f \in {g \in Range(forms) : Truthy(g.formId)}}
  IN [id \in ids |-> TopChannel(forms, id)]

\* txLookup[p.transactionId] = {channel, campaign}: the last purchase wins
buildTxLookup(purchases) ==
  LET ids == {p.transactionId : p \in {q \in Range(purchases) : Truthy(q.transactionId)}}
      lastOf(id) == CHOOSE i \in 1..Len(purchases) :
                      /\ purchases[i].transactionId = id
                      /\ \A j \in (i + 1)..Len(purchases) : purchases[j].transactionId # id
  IN [id \in ids |-> [channel |-> purchases[lastOf(id)].channel,
                      campaign |-> purchases[lastOf(id)].campaign]]

BuildLookups ==
  /\ pc = "lookups"
  /\ formToChannel' = buildFormToChannel(formSubmissions)
  /\ txLookup' = buildTxLookup(ga4Purchases)
  /\ pc' = "enrichDeals"
  /\ UNCHANGED <<raw, googleAds, stripeCharges, hubspotDeals, formSubmissions,
                 ga4Purchases, weeks, weeklyAds, weeklyFunnel, weeklyStripe,
                 monthlyData, kpis, output,
                 stripeSubs, subSnapshot, weeklySubMetrics, previous, arg, ret,
                 locals, effects>>

(***************************************************************************)
(* main: enrich HubSpot deals with the channel of their form               *)
(***************************************************************************)
\* deal.formId ? (formToChannel[deal.formId] || 'Unknown') : 'Unknown'
dealChannel(ftc, deal) ==
  IF Truthy(deal.formId)
  THEN IF deal.formId \in DOMAIN ftc THEN OrElse(ftc[deal.formId], "Unknown")
       ELSE "Unknown"
  ELSE "Unknown"

EnrichDeals ==
  /\ pc = "enrichDeals"
  /\ hubspotDeals' = [i \in 1..Len(hubspotDeals) |->
                        [hubspotDeals[i] EXCEPT
                           !.channel = dealChannel(formToChannel, hubspotDeals[i])]]
  /\ pc' = "normalize"
  /\ UNCHANGED <<raw, googleAds, stripeCharges, formSubmissions, ga4Purchases,
                 formToChannel, txLookup, weeks, weeklyAds, weeklyFunnel,
                 weeklyStripe, monthlyData, kpis, output,
                 stripeSubs, subSnapshot, weeklySubMetrics, previous, arg, ret,
                 locals, effects>>

(***************************************************************************)
(* main: classify Stripe charges (legacy shape to canonical shape)         *)
(***************************************************************************)
\* the derivation of the canonical fields from metadata and description
deriveLegacy(charge) ==
  LET meta == charge.metadata
      desc == charge.description
      planType == IF "subscription" \in desc THEN "Subscription"
                  ELSE IF "invoice" \in desc THEN "Invoice"
                  ELSE "Prepaid"
  IN [charge EXCEPT
        !.country = OrElse(charge.country,
                           IF meta.key # <<>> THEN meta.key[2] ELSE ""),
        !.product = OrElse(charge.product,
                           IF meta.jobType = "perfect" THEN "Human-Made"
                           ELSE "Machine-Made"),
        !.planType = planType,
        !.planSubtype =
           IF planType = "Subscription"
           THEN (IF "creation" \in desc THEN "Creation" ELSE "Update")
           ELSE IF planType = "Prepaid"
           THEN (IF meta.uploadBatchId = "addCredit" THEN "Top-Up"
                 ELSE "Job Creation")
           ELSE charge.planSubtype,
        !.paymentIdentifier = OrElse(charge.paymentIdentifier,
                                     OrElse(meta.paymentIdentifier, "")),
        !.uploadBatchId = OrElse(charge.uploadBatchId,
                                 OrElse(meta.uploadBatchId, ""))]

\* a variant that forgets the planType short-circuit and reads the subtype
\* from the canonical uploadBatchId, which the same pass fills in afterwards
normalizeChargeRederive(charge) ==
  IF charge.hasMetadata
  THEN LET d == deriveLegacy(charge)
       IN [d EXCEPT !.planSubtype =
             IF d.planType = "Prepaid"
             THEN (IF charge.uploadBatchId = "addCredit" THEN "Top-Up"
                   ELSE "Job Creation")
             ELSE d.planSubtype]
  ELSE charge

\* a variant that leaves out the product derivation
normalizeChargeNoProduct(charge) ==
  IF ~Truthy(charge.planType) /\ charge.hasMetadata
  THEN [deriveLegacy(charge) EXCEPT !.product = charge.product]
  ELSE charge

\* if (!charge.planType && charge.metadata) { ... }
normalizeCharge(charge) ==
  IF ~Truthy(charge.planType) /\ charge.hasMetadata
  THEN deriveLegacy(charge)
  ELSE charge

\* a variant that leaves the legacy records to a later pass
normalizeAllLater(charges) == charges

normalizeAll(charges) == [i \in 1..Len(charges) |-> normalizeCharge(charges[i])]

NormalizeCharges ==
  /\ pc = "normalize"
  /\ stripeCharges' = normalizeAll(stripeCharges)
  /\ pc' = "attribute"
  /\ UNCHANGED <<raw, googleAds, hubspotDeals, formSubmissions, ga4Purchases,
                 formToChannel, txLookup, weeks, weeklyAds, weeklyFunnel,
                 weeklyStripe, monthlyData, kpis, output,
                 stripeSubs, subSnapshot, weeklySubMetrics, previous, arg, ret,
                 locals, effects>>

(***************************************************************************)
(* main: enrich Stripe charges with the channel of their GA4 purchase      *)
(***************************************************************************)
NoMatch == [hit |-> FALSE, channel |-> Undef, campaign |-> Undef]

Hit(entry) == [hit |-> TRUE, channel |-> entry.channel, campaign |-> entry.campaign]

\* a variant without the exclusion of the reserved value 'addCredit'
chargeMatchNoSentinel(tx, charge) ==
  LET payId == OrElse(charge.paymentIdentifier, "")
      upId == OrElse(charge.uploadBatchId, "")
  IN IF Truthy(payId) /\ payId \in DOMAIN tx THEN Hit(tx[payId])
     ELSE IF Truthy(upId) /\ upId \in DOMAIN tx THEN Hit(tx[upId])
     ELSE NoMatch

\* a variant that tries uploadBatchId before paymentIdentifier
chargeMatchUploadFirst(tx, charge) ==
  LET payId == OrElse(charge.paymentIdentifier, "")
      upId == OrElse(charge.uploadBatchId, "")
  IN IF Truthy(upId) /\ upId # "addCredit" /\ upId \in DOMAIN tx THEN Hit(tx[upId])
     ELSE IF Truthy(payId) /\ payId \in DOMAIN tx THEN Hit(tx[payId])
     ELSE NoMatch

\* if (payId && txLookup[payId]) ... else if (upId && upId !== 'addCredit' && txLookup[upId])
chargeMatch(tx, charge) ==
  LET payId == OrElse(charge.paymentIdentifier, "")
      upId == OrElse(charge.uploadBatchId, "")
  IN IF Truthy(payId) /\ payId \in DOMAIN tx THEN Hit(tx[payId])
     ELSE IF Truthy(upId) /\ upId # "addCredit" /\ upId \in DOMAIN tx THEN Hit(tx[upId])
     ELSE NoMatch

attributeCharge(tx, charge) ==
  LET match == chargeMatch(tx, charge)
  IN IF match.hit
     THEN [charge EXCEPT !.channel = match.channel, !.campaign = match.campaign]
     ELSE [charge EXCEPT
             !.channel = IF charge.planType = "Subscription" THEN "Subscription"
                         ELSE "Unknown",
             !.campaign = ""]

AttributeCharges ==
  /\ pc = "attribute"
  /\ stripeCharges' = [i \in 1..Len(stripeCharges) |->
                         attributeCharge(txLookup, stripeCharges[i])]
  /\ pc' = "weeks"
  /\ UNCHANGED <<raw, googleAds, hubspotDeals, formSubmissions, ga4Purchases,
                 formToChannel, txLookup, weeks, weeklyAds, weeklyFunnel,
                 weeklyStripe, monthlyData, kpis, output,
                 stripeSubs, subSnapshot, weeklySubMetrics, previous, arg, ret,
                 locals, effects>>

(***************************************************************************)
(* main: COLLECT ALL WEEKS                                                 *)
(***************************************************************************)
\* a variant that takes the weeks of the ad rows and the charges only
allWeeksAdsCharges(ads, charges, deals, forms, purchases) ==
  {r.week : r \in Range(ads)} \cup {r.week : r \in Range(charges)}

\* the Set allWeeks after the five forEach loops
allWeeks(ads, charges, deals, forms, purchases) ==
  {r.week : r \in Range(ads)}
    \cup {r.week : r \in Range(charges)}
    \cup {r.createWeek : r \in {d \in Range(deals) : HasWeek(d.createWeek)}}
    \cup {r.week : r \in {f \in Range(forms) : HasWeek(f.week)}}
    \cup {r.week : r \in {p \in Range(purchases) : HasWeek(p.week)}}

CollectWeeks ==
  /\ pc = "weeks"
  /\ weeks' = SortStrings(allWeeks(googleAds, stripeCharges, hubspotDeals,
                                   formSubmissions, ga4Purchases))
  /\ pc' = "weekly"
  /\ UNCHANGED <<raw, googleAds, stripeCharges, hubspotDeals, formSubmissions,
                 ga4Purchases, formToChannel, txLookup, weeklyAds, weeklyFunnel,
                 weeklyStripe, monthlyData, kpis, output,
                 stripeSubs, subSnapshot, weeklySubMetrics, previous, arg, ret,
                 locals, effects>>

(***************************************************************************)
(* Helpers of the aggregation                                              *)
(***************************************************************************)
\* rows.reduce((s, r) => s + r.cost, 0)
sumCost(rows) == SumSeq([i \in 1..Len(rows) |-> rows[i].cost])

\* r.amount || 0, of a deal
amountOrZero(r) == IF "amount" \in DOMAIN r THEN r.amount ELSE 0

\* deals.reduce((s, r) => s + (r.amount || 0), 0)
sumDealAmount(rows) == SumSeq([i \in 1..Len(rows) |-> amountOrZero(rows[i])])

\* rows.reduce((s, r) => s + r.amount, 0)
sumAmount(rows) == SumSeq([i \in 1..Len(rows) |-> rows[i].amount])

\* the items of arr whose key is k, in the order of arr
RECURSIVE itemsWithKey(_, _, _)
itemsWithKey(arr, keys, k) ==
  IF arr = <<>> THEN <<>>
  ELSE (IF Head(keys) = k THEN <<Head(arr)>> ELSE <<>>)
         \o itemsWithKey(Tail(arr), Tail(keys), k)

\* a variant that keeps the first item of each key only
groupByFirstOnly(arr, keys) ==
  [k \in Range(keys) |-> <<itemsWithKey(arr, keys, k)[1]>>]

\* groupBy(arr, keyFn), keys[i] being keyFn(arr[i])
groupBy(arr, keys) == [k \in Range(keys) |-> itemsWithKey(arr, keys, k)]

\* a variant that falls back to the rows of some other key
rowsOfSomeKey(map, key) ==
  IF key \in DOMAIN map THEN map[key]
  ELSE IF DOMAIN map # {} THEN map[CHOOSE k \in DOMAIN map : TRUE]
  ELSE <<>>

\* map[key] || []
rowsOf(map, key) == IF key \in DOMAIN map THEN map[key] ELSE <<>>

\* the week of each row, the key of adsByWeek, formsByWeek and chargesByWeek
weekOfEach(rows) == [i \in 1..Len(rows) |-> rows[i].week]

\* the createWeek of each deal, the key of dealsByWeek
createWeekOfEach(deals) == [i \in 1..Len(deals) |-> deals[i].createWeek]


\* Business Unit classification
getBU(product) ==
  IF ~Truthy(product) THEN "Transcription"
  ELSE IF product \in {"Human-Made Subtitles", "Machine-Made Subtitles",
                       "Translated Subtitles", "Translations", "Subtitles"}
  THEN "Media"
  ELSE IF product \in {"Amber Notes", "AI Meeting Notes", "Meeting Notes"}
  THEN "Innovations"
  ELSE "Transcription"

(***************************************************************************)
(* main: WEEKLY GOOGLE ADS                                                 *)
(***************************************************************************)
\* a variant that counts the rows of userType 'Other' as Machine-Made
isMachineMadeOrOther(r) == r.userType \in {"Machine-Made", "Other"}

isMachineMade(r) == r.userType = "Machine-Made"
isHumanMade(r) == r.userType = "Human-Made"
isBrand(r) == r.campaignType = "Brand"

\* byCountry / byProduct: the cost summed per key, rounded on output
costByKey(rows, keys) ==
  LET by == groupBy(rows, keys)
  IN [k \in DOMAIN by |-> round(sumCost(by[k]))]

adsByBU(rows) ==
  [bu \in {getBU(rows[i].product) : i \in 1..Len(rows)} |->
     LET of == SelectSeq(rows, LAMBDA r : getBU(r.product) = bu)
     IN [totalCost |-> round(sumCost(of)),
         mmCost |-> round(sumCost(SelectSeq(of, isMachineMade))),
         hmCost |-> round(sumCost(SelectSeq(of, isHumanMade))),
         brandCost |-> round(sumCost(SelectSeq(of, isBrand)))]]

weeklyAdsOf(ads, week) ==
  LET rows == rowsOf(groupBy(ads, weekOfEach(ads)), week)
  IN [week |-> week,
      totalCost |-> round(sumCost(rows)),
      mmCost |-> round(sumCost(SelectSeq(rows, isMachineMade))),
      hmCost |-> round(sumCost(SelectSeq(rows, isHumanMade))),
      brandCost |-> round(sumCost(SelectSeq(rows, isBrand))),
      byCountry |-> costByKey(rows, [i \in 1..Len(rows) |-> rows[i].country]),
      byProduct |-> costByKey(rows, [i \in 1..Len(rows) |-> rows[i].product]),
      byBU |-> adsByBU(rows)]

(***************************************************************************)
(* main: WEEKLY FUNNEL                                                     *)
(***************************************************************************)
isSQL(r) == r.lifecycleStage \in {"SQL", "Customer"}
isWon(r) == r.status = "Won"
fromLead(r) == Truthy(r.formId)

\* r.formId.match(/-([a-z]{2})_/)?.[1]?.toUpperCase() on the form ids of the model
formLang(formId) ==
  IF formId = "RequestQuote-nl_1" THEN "NL"
  ELSE IF formId = "Demo-de_7" THEN "DE"
  ELSE ""

dealChannelKey(r) == OrElse(r.channel, "Unknown")
dealCountryKey(r) == OrElse(IF Truthy(r.formId) THEN formLang(r.formId) ELSE "", "Unknown")

\* byChannel / byCountry of the funnel, after roundObj
funnelByKey(deals, keys) ==
  [k \in Range(keys) |->
     LET of == itemsWithKey(deals, keys, k)
     IN [mqls |-> Len(of),
         sqls |-> Len(SelectSeq(of, isSQL)),
         won |-> Len(SelectSeq(of, isWon)),
         wonRevenue |-> round(sumDealAmount(SelectSeq(of, isWon)))]]

weeklyFunnelOf(deals, forms, week) ==
  LET ds == rowsOf(groupBy(deals, createWeekOfEach(deals)), week)
      fs == rowsOf(groupBy(forms, weekOfEach(forms)), week)
  IN [week |-> week,
      leads |-> SumSeq([i \in 1..Len(fs) |-> fs[i].count]),
      mqls |-> Len(ds),
      mqlsFromLeads |-> Len(SelectSeq(ds, fromLead)),
      sqls |-> Len(SelectSeq(ds, isSQL)),
      sqlsFromLeads |-> Len(SelectSeq(ds, LAMBDA r : fromLead(r) /\ isSQL(r))),
      won |-> Len(SelectSeq(ds, isWon)),
      wonRevenue |-> round(sumDealAmount(SelectSeq(ds, isWon))),
      byChannel |-> funnelByKey(ds, [i \in 1..Len(ds) |-> dealChannelKey(ds[i])]),
      byCountry |-> funnelByKey(ds, [i \in 1..Len(ds) |-> dealCountryKey(ds[i])])]

(***************************************************************************)
(* main: WEEKLY STRIPE                                                     *)
(***************************************************************************)
\* a variant in which the charge that creates a bucket is not counted in it
bucketOfSkipFirst(rows) ==
  [count |-> Len(rows) - 1,
   revenue |-> SumSeq([i \in 1..(Len(rows) - 1) |-> rows[i + 1].amount])]

\* obj[key] after count++ and revenue += charge.amount for each of its rows
bucketOf(rows) ==
  [count |-> Len(rows),
   revenue |-> SumSeq([i \in 1..Len(rows) |-> rows[i].amount])]

\* the buckets addTo(obj, keys[i], rows[i]) leaves after the loop over the rows
addTo(rows, keys) ==
  [k \in Range(keys) |-> bucketOf(itemsWithKey(rows, keys, k))]

roundCountRev(obj) ==
  [k \in DOMAIN obj |-> [count |-> obj[k].count, revenue |-> round(obj[k].revenue)]]

\* count + rounded revenue of a filtered set of charges
cr(rows) ==
  [count |-> Len(rows), revenue |-> round(sumAmount(rows))]

\* a variant that keeps the invoices among the Machine-Made charges
mmOfWithInvoices(rows) == SelectSeq(rows, LAMBDA r : r.product = "Machine-Made")

\* rows.filter(r => r.product === 'Machine-Made' && r.planType !== 'Invoice')
mmOf(rows) ==
  SelectSeq(rows, LAMBDA r : r.product = "Machine-Made" /\ r.planType # "Invoice")

\* the subtotals of the product x plan-type x subtype filter combinations
computeSegments(rows) ==
  LET mm == mmOf(rows)
      plan(rs, p) == SelectSeq(rs, LAMBDA r : r.planType = p)
      sub(rs, p, t) == SelectSeq(rs, LAMBDA r : r.planType = p /\ r.planSubtype = t)
  IN ("all.all.all" :> cr(rows))
     @@ ("all.prepaid.all" :> cr(plan(rows, "Prepaid")))
     @@ ("all.prepaid.topup" :> cr(sub(rows, "Prepaid", "Top-Up")))
     @@ ("all.prepaid.job" :> cr(sub(rows, "Prepaid", "Job Creation")))
     @@ ("all.sub.all" :> cr(plan(rows, "Subscription")))
     @@ ("all.sub.update" :> cr(sub(rows, "Subscription", "Update")))
     @@ ("all.sub.creation" :> cr(sub(rows, "Subscription", "Creation")))
     @@ ("mm.all.all" :> cr(mm))
     @@ ("mm.prepaid.all" :> cr(plan(mm, "Prepaid")))
     @@ ("mm.prepaid.topup" :> cr(sub(mm, "Prepaid", "Top-Up")))
     @@ ("mm.prepaid.job" :> cr(sub(mm, "Prepaid", "Job Creation")))
     @@ ("mm.sub.all" :> cr(plan(mm, "Subscription")))
     @@ ("mm.sub.update" :> cr(sub(mm, "Subscription", "Update")))
     @@ ("mm.sub.creation" :> cr(sub(mm, "Subscription", "Creation")))
     @@ ("hm.all.all" :> cr(SelectSeq(rows, LAMBDA r : r.product = "Human-Made")))
     @@ ("inv.all.all" :> cr(plan(rows, "Invoice")))

weeklyStripeOf(charges, week) ==
  LET rows == rowsOf(groupBy(charges, weekOfEach(charges)), week)
  IN [week |-> week,
      totalRevenue |-> round(sumAmount(rows)),
      count |-> Len(rows),
      seg |-> computeSegments(rows),
      byPlanType |-> roundCountRev(addTo(rows, [i \in 1..Len(rows) |-> rows[i].planType])),
      byProduct |-> roundCountRev(addTo(rows, [i \in 1..Len(rows) |-> rows[i].product])),
      byCountry |-> roundCountRev(addTo(rows, [i \in 1..Len(rows) |->
                                               OrElse(rows[i].country, "Unknown")])),
      byCurrency |-> roundCountRev(addTo(rows, [i \in 1..Len(rows) |-> rows[i].currency])),
      byChannel |-> roundCountRev(addTo(rows, [i \in 1..Len(rows) |-> rows[i].channel]))]

AggregateWeekly ==
  /\ pc = "weekly"
  /\ weeklyAds' = [i \in 1..Len(weeks) |-> weeklyAdsOf(googleAds, weeks[i])]
  /\ weeklyFunnel' = [i \in 1..Len(weeks) |->
                        weeklyFunnelOf(hubspotDeals, formSubmissions, weeks[i])]
  /\ weeklyStripe' = [i \in 1..Len(weeks) |-> weeklyStripeOf(stripeCharges, weeks[i])]
  /\ pc' = "monthly"
  /\ UNCHANGED <<raw, googleAds, stripeCharges, hubspotDeals, formSubmissions,
                 ga4Purchases, formToChannel, txLookup, weeks, monthlyData, kpis,
                 output,
                 stripeSubs, subSnapshot, weeklySubMetrics, previous, arg, ret,
                 locals, effects>>

(***************************************************************************)
(* main: MONTHLY AGGREGATES                                                *)
(***************************************************************************)
\* [...new Set(weeks.map(w => getMonth(w)))].sort()
allMonths(ws) == SortStrings({getMonth(ws[i]) : i \in 1..Len(ws)})

\* a variant of the conversion rate without the zero-denominator guard
pctUnguarded(n, d) == RoundPct(n, d)

\* d > 0 ? round(n / d * 100, 1) : 0
pct(n, d) == IF d > 0 THEN RoundPct(n, d) ELSE Num(0)

\* totalAdsCost > 0 ? round(totalStripeRevenue / totalAdsCost, 2) : 0
roasOf(revenue, cost) == IF cost > 0 THEN RoundRatio(revenue, cost) ELSE Num(0)

\* Deal AOV of the first aggregator: closedWon > 0 ? round(closedRevenue / closedWon) : 0
dealAOV(closedRevenue, closedWon) ==
  IF closedWon > 0
  THEN Num(10 * ((2 * closedRevenue + 10 * closedWon) \div (20 * closedWon)))
  ELSE Num(0)

\* monthWeeks.flatMap(w => byWeek[w] || [])
RECURSIVE flatMap(_, _)
flatMap(monthWeeks, byWeek) ==
  IF monthWeeks = <<>> THEN <<>>
  ELSE rowsOf(byWeek, Head(monthWeeks)) \o flatMap(Tail(monthWeeks), byWeek)

\* a variant that takes the weeks of the year of the month
monthWeeksOfYear(ws, month) ==
  SelectSeq(ws, LAMBDA w : SubSeq(w, 1, 1) = SubSeq(month, 1, 1))

\* weeks.filter(w => getMonth(w) === month)
monthWeeksOf(ws, month) == SelectSeq(ws, LAMBDA w : getMonth(w) = month)

monthlyOf(ads, deals, forms, charges, ws, month) ==
  LET monthWeeks == monthWeeksOf(ws, month)
      adRows == flatMap(monthWeeks, groupBy(ads, weekOfEach(ads)))
      dealRows == flatMap(monthWeeks, groupBy(deals, createWeekOfEach(deals)))
      formRows == flatMap(monthWeeks, groupBy(forms, weekOfEach(forms)))
      chargeRows == flatMap(monthWeeks, groupBy(charges, weekOfEach(charges)))
      mqls == Len(dealRows)
      sqls == Len(SelectSeq(dealRows, isSQL))
      won == Len(SelectSeq(dealRows, isWon))
  IN [month |-> month,
      adsCost |-> round(sumCost(adRows)),
      mmCost |-> round(sumCost(SelectSeq(adRows, isMachineMade))),
      hmCost |-> round(sumCost(SelectSeq(adRows, isHumanMade))),
      brandCost |-> round(sumCost(SelectSeq(adRows, isBrand))),
      leads |-> SumSeq([i \in 1..Len(formRows) |-> formRows[i].count]),
      mqls |-> mqls,
      mqlsFromLeads |-> Len(SelectSeq(dealRows, fromLead)),
      sqls |-> sqls,
      sqlsFromLeads |-> Len(SelectSeq(dealRows, LAMBDA r : fromLead(r) /\ isSQL(r))),
      won |-> won,
      wonRevenue |-> round(sumDealAmount(SelectSeq(dealRows, isWon))),
      mqlToSql |-> pct(sqls, mqls),
      sqlToWon |-> pct(won, sqls),
      stripeRevenue |-> round(sumAmount(chargeRows)),
      stripeSeg |-> computeSegments(chargeRows)]

\* getMonth(w) throws: slice of undefined
getMonthThrows(ws) == \E i \in 1..Len(ws) : ws[i] = UndefWeek

AggregateMonthly ==
  /\ pc = "monthly"
  /\ ~getMonthThrows(weeks)
  /\ monthlyData' = LET ms == allMonths(weeks)
                    IN [i \in 1..Len(ms) |->
                          monthlyOf(googleAds, hubspotDeals, formSubmissions,
                                    stripeCharges, weeks, ms[i])]
  /\ pc' = "kpis"
  /\ UNCHANGED <<raw, googleAds, stripeCharges, hubspotDeals, formSubmissions,
                 ga4Purchases, formToChannel, txLookup, weeks, weeklyAds,
                 weeklyFunnel, weeklyStripe, kpis, output,
                 stripeSubs, subSnapshot, weeklySubMetrics, previous, arg, ret,
                 locals, effects>>

(***************************************************************************)
(* main: KPIs                                                              *)
(***************************************************************************)
kpisOf(ads, deals, forms, charges) ==
  LET totalStripeRevenue == round(sumAmount(charges))
      totalAdsCost == round(sumCost(ads))
  IN [totalLeads |-> SumSeq([i \in 1..Len(forms) |-> forms[i].count]),
      totalMQLs |-> Len(deals),
      totalMQLsFromLeads |-> Len(SelectSeq(deals, fromLead)),
      totalSQLs |-> Len(SelectSeq(deals, isSQL)),
      totalSQLsFromLeads |-> Len(SelectSeq(deals, LAMBDA r : fromLead(r) /\ isSQL(r))),
      totalWon |-> Len(SelectSeq(deals, isWon)),
      totalDealRevenue |-> round(sumDealAmount(SelectSeq(deals, isWon))),
      totalStripeRevenue |-> totalStripeRevenue,
      totalAdsCost |-> totalAdsCost,
      roas |-> roasOf(totalStripeRevenue, totalAdsCost)]

ComputeKpis ==
  /\ pc = "kpis"
  /\ kpis' = kpisOf(googleAds, hubspotDeals, formSubmissions, stripeCharges)
  /\ pc' = "subs"
  /\ UNCHANGED <<raw, googleAds, stripeCharges, hubspotDeals, formSubmissions,
                 ga4Purchases, formToChannel, txLookup, weeks, weeklyAds,
                 weeklyFunnel, weeklyStripe, monthlyData, output,
                 stripeSubs, subSnapshot, weeklySubMetrics, previous, arg, ret,
                 locals, effects>>

(***************************************************************************)
(* main: SUBSCRIPTION METRICS.  A subscription is a record whose fields    *)
(* createdWeek, canceledWeek, monthlyAmount and planType may be absent.    *)
(***************************************************************************)
\* s.createdWeek or s.canceledWeek: an absent week is falsy like ''
weekField(s, f) == IF f \in DOMAIN s THEN s[f] ELSE NoWeek

\* r.monthlyAmount || 0
monthlyAmountOf(s) == IF "monthlyAmount" \in DOMAIN s THEN s.monthlyAmount ELSE 0

planTypeOf(s) == IF "planType" \in DOMAIN s THEN s.planType ELSE Undef

\* a variant that groups the subscriptions without dropping the undated ones
subsByWeekUnfiltered(subs, f) ==
  groupBy(subs, [i \in 1..Len(subs) |-> weekField(subs[i], f)])

\* groupBy(stripeSubs.filter(s => s[f]), s => s[f])
subsByWeek(subs, f) ==
  LET dated == SelectSeq(subs, LAMBDA s : HasWeek(weekField(s, f)))
  IN groupBy(dated, [i \in 1..Len(dated) |-> weekField(dated[i], f)])

\* a variant that leaves out the first subscription of the group
sumMonthlyAmountOfRest(subs) ==
  SumSeq([i \in 1..(Len(subs) - 1) |-> monthlyAmountOf(subs[i + 1])])

\* rows.reduce((s, r) => s + (r.monthlyAmount || 0), 0)
sumMonthlyAmount(subs) == SumSeq([i \in 1..Len(subs) |-> monthlyAmountOf(subs[i])])

countPlan(subs, plan) == Len(SelectSeq(subs, LAMBDA s : planTypeOf(s) = plan))

weeklySubMetricsOf(subs, week) ==
  LET created == rowsOf(subsByWeek(subs, "createdWeek"), week)
      canceled == rowsOf(subsByWeek(subs, "canceledWeek"), week)
      newMrr == round(sumMonthlyAmount(created))
      churnedMrr == round(sumMonthlyAmount(canceled))
  IN [week |-> week,
      newSubs |-> Len(created),
      newMrr |-> newMrr,
      churnedSubs |-> Len(canceled),
      churnedMrr |-> churnedMrr,
      netMrr |-> round(newMrr - churnedMrr),
      byPlan |-> [monthly |-> [new |-> countPlan(created, "monthly"),
                               churned |-> countPlan(canceled, "monthly")],
                  yearly |-> [new |-> countPlan(created, "yearly"),
                              churned |-> countPlan(canceled, "yearly")]]]

AggregateSubs ==
  /\ pc = "subs"
  /\ weeklySubMetrics' = [i \in 1..Len(weeks) |-> weeklySubMetricsOf(stripeSubs, weeks[i])]
  /\ pc' = "write"
  /\ UNCHANGED <<raw, googleAds, stripeCharges, hubspotDeals, formSubmissions,
                 ga4Purchases, formToChannel, txLookup, weeks, weeklyAds,
                 weeklyFunnel, weeklyStripe, monthlyData, kpis, output,
                 stripeSubs, subSnapshot, previous, arg, ret,
                 locals, effects>>

(***************************************************************************)
(* main: BUILD OUTPUT and the terminal write of data.json                  *)
(***************************************************************************)
\* new Date().toISOString(): the instants at which a run may write
Clock == {"2025-06-09T06:00:00.000Z", "2025-06-09T07:00:00.000Z"}

\* one bucket of weeklyGA4: the purchases of a week
weeklyGA4Of(purchases, week) ==
  LET rows == rowsOf(groupBy(purchases, weekOfEach(purchases)), week)
  IN [week |-> week,
      purchases |-> SumSeq([i \in 1..Len(rows) |-> rows[i].transactions]),
      purchaseRevenue |-> round(SumSeq([i \in 1..Len(rows) |-> rows[i].revenue]))]

\* the deal-level list of the output, in the fields the deals of the model carry
dealsOf(deals) ==
  [i \in 1..Len(deals) |->
     LET d == deals[i]
     IN [week |-> d.createWeek,
         closeWeek |-> IF "closeWeek" \in DOMAIN d THEN d.closeWeek ELSE NoWeek,
         channel |-> OrElse(d.channel, "Unknown"),
         lifecycleStage |-> OrElse(d.lifecycleStage, ""),
         status |-> OrElse(d.status, ""),
         amount |-> amountOrZero(d),
         formId |-> OrElse(d.formId, "")]]

\* a variant that also stamps the date range with the instant of the run
buildOutputStamped(t) ==
  [written |-> TRUE,
   updatedAt |-> t,
   dateRange |-> [start |-> IF weeks = <<>> THEN NoWeek ELSE weeks[1],
                  end |-> IF weeks = <<>> THEN NoWeek ELSE weeks[Len(weeks)],
                  asOf |-> t],
   kpis |-> kpis,
   subSnapshot |-> subSnapshot,
   monthly |-> monthlyData,
   weekly |-> [ads |-> weeklyAds, funnel |-> weeklyFunnel,
               stripe |-> weeklyStripe,
               ga4 |-> [i \in 1..Len(weeks) |-> weeklyGA4Of(ga4Purchases, weeks[i])],
               subs |-> weeklySubMetrics],
   deals |-> dealsOf(hubspotDeals)]

\* the output document built at instant t
buildOutput(t) ==
  [written |-> TRUE,
   updatedAt |-> t,
   dateRange |-> [start |-> IF weeks = <<>> THEN NoWeek ELSE weeks[1],
                  end |-> IF weeks = <<>> THEN NoWeek ELSE weeks[Len(weeks)]],
   kpis |-> kpis,
   subSnapshot |-> subSnapshot,
   monthly |-> monthlyData,
   weekly |-> [ads |-> weeklyAds, funnel |-> weeklyFunnel,
               stripe |-> weeklyStripe,
               ga4 |-> [i \in 1..Len(weeks) |-> weeklyGA4Of(ga4Purchases, weeks[i])],
               subs |-> weeklySubMetrics],
   deals |-> dealsOf(hubspotDeals)]

WriteOutput ==
  /\ pc = "write"
  /\ \E t \in Clock : output' = buildOutput(t)
  /\ pc' = "done"
  /\ UNCHANGED <<raw, googleAds, stripeCharges, hubspotDeals, formSubmissions,
                 ga4Purchases, formToChannel, txLookup, weeks, weeklyAds,
                 weeklyFunnel, weeklyStripe, monthlyData, kpis,
                 stripeSubs, subSnapshot, weeklySubMetrics, previous, arg, ret,
                 locals, effects>>

Next ==
  \/ Load
  \/ LoadAbort
  \/ BuildLookups
  \/ EnrichDeals
  \/ NormalizeCharges
  \/ AttributeCharges
  \/ CollectWeeks
  \/ AggregateWeekly
  \/ AggregateMonthly
  \/ ComputeKpis
  \/ AggregateSubs
  \/ WriteOutput

(***************************************************************************)
(* Runs over inputs of all five sources: the weeks of the records vary     *)
(***************************************************************************)
MaxPerSource == 1

WeekAds == {Ad(w, 1000, "NL", "Transcription", "Other", "NB") : w \in {W1, W3}}
WeekCharges ==
  {Charge(w, 10000, "Prepaid", "Top-Up", "Machine-Made", "NL", "", "") : w \in {W0, W1}}
WeekDeals == {Deal(w, "", "SQL", "Open", 0) : w \in {NoWeek, W2}}
WeekForms == {Form(w, "Contact_2", "Organic", 1) : w \in {NoWeek, W3}}
WeekPurchases == {Purchase(w, "tx1", "Organic", "c1") : w \in {NoWeek, W1}}

InitWeeks ==
  \/ \E ads \in SeqsUpTo(WeekAds, MaxPerSource),
        charges \in SeqsUpTo(WeekCharges, MaxPerSource),
        deals \in SeqsUpTo(WeekDeals, MaxPerSource),
        forms \in SeqsUpTo(WeekForms, MaxPerSource),
        purchases \in SeqsUpTo(WeekPurchases, MaxPerSource) :
       Start(Raw(ads, charges, deals, forms, purchases))
  \/ Start(CorruptRaw)

SpecWeeks == InitWeeks /\ [][Next]_vars

WeeksCollected == pc \in {"weekly", "monthly", "kpis", "subs", "write", "done"}

\* C1: after the week collection the week list is strictly ascending (sorted,
\* no duplicates) and contains the week of every ad row and every charge, the
\* createWeek of every deal that has one and the week of every form
\* submission and purchase that has one.
C1_WeekList ==
  WeeksCollected =>
    /\ \A i \in 1..Len(weeks) : \A j \in (i + 1)..Len(weeks) :
         StrLess(weeks[i], weeks[j])
    /\ \A r \in Range(googleAds) : r.week \in Range(weeks)
    /\ \A r \in Range(stripeCharges) : r.week \in Range(weeks)
    /\ \A r \in Range(hubspotDeals) :
         HasWeek(r.createWeek) => r.createWeek \in Range(weeks)
    /\ \A r \in Range(formSubmissions) : HasWeek(r.week) => r.week \in Range(weeks)
    /\ \A r \in Range(ga4Purchases) : HasWeek(r.week) => r.week \in Range(weeks)

\* a run in which two sources share a week, a deal brings a week of its own
\* and the charge's week precedes the ad row's
C1_Witness ==
  /\ WeeksCollected
  /\ Len(weeks) >= 3
  /\ \E p \in Range(ga4Purchases) : \E a \in Range(googleAds) : p.week = a.week
  /\ \E d \in Range(hubspotDeals) :
       /\ HasWeek(d.createWeek)
       /\ \A a \in Range(googleAds) : a.week # d.createWeek
       /\ \A c \in Range(stripeCharges) : c.week # d.createWeek
  /\ \E c \in Range(stripeCharges) : \E a \in Range(googleAds) :
       StrLess(c.week, a.week)

(***************************************************************************)
(* Runs over form submissions and deals: the form-to-channel vote          *)
(***************************************************************************)
MaxForms == 3
MaxDeals == 1

\* channel is d[5].value || '' and count parseInt(...) in the GA4 fetcher
VoteForms ==
  { Form(W1, "RequestQuote-nl_1", "Organic", 2),
    Form(W1, "RequestQuote-nl_1", "Organic", 3),
    Form(W1, "RequestQuote-nl_1", "Direct", 2),
    Form(W1, "RequestQuote-nl_1", "Direct", 3),
    Form(W1, "RequestQuote-nl_1", "", 3),
    Form(W1, "", "Organic", 2) }

VoteDeals == {Deal(W1, id, "", "Open", 0) : id \in {"", "RequestQuote-nl_1", "Contact_2"}}

InitForms ==
  \/ \E forms \in SeqsUpTo(VoteForms, MaxForms),
        deals \in SeqsUpTo(VoteDeals, MaxDeals) :
       Start(Raw(<<>>, <<>>, deals, forms, <<>>))
  \/ Start(CorruptRaw)

SpecForms == InitForms /\ [][Next]_vars

DealsEnriched == pc \notin {"load", "lookups", "enrichDeals"}

\* the form ids that occur in the form submissions
FormIds == {f.formId : f \in Range(formSubmissions)}

ChannelsOfForm(id) == {f.channel : f \in {g \in Range(formSubmissions) : g.formId = id}}

\* the channels with the highest summed count among the submissions of a form
MajorityChannels(id) ==
  {c \in ChannelsOfForm(id) :
     \A e \in ChannelsOfForm(id) :
       Tally(formSubmissions, id, e) <= Tally(formSubmissions, id, c)}

\* C2 as stated: after deal enrichment every deal has a channel; for a deal
\* whose formId is present and occurs in the form submissions it is the channel
\* with the highest summed count, otherwise it is 'Unknown'.
C2_Original ==
  DealsEnriched =>
    \A d \in Range(hubspotDeals) :
      /\ d.channel # Undef
      /\ IF Truthy(d.formId) /\ d.formId \in FormIds
         THEN d.channel \in MajorityChannels(d.formId)
         ELSE d.channel = "Unknown"

\* C2 as amended: the same, except that a majority channel that is the empty
\* string gives 'Unknown'; the channel is never unset and never empty.
C2_DealChannel ==
  DealsEnriched =>
    \A d \in Range(hubspotDeals) :
      /\ Truthy(d.channel)
      /\ IF Truthy(d.formId) /\ d.formId \in FormIds
         THEN d.channel \in {OrElse(c, "Unknown") : c \in MajorityChannels(d.formId)}
         ELSE d.channel = "Unknown"

\* a deal takes the majority channel Organic of its form although the first
\* submission of that form came through another channel
C2_Witness ==
  /\ DealsEnriched
  /\ \E d \in Range(hubspotDeals) :
       /\ d.formId = "RequestQuote-nl_1"
       /\ d.channel = "Organic"
       /\ MajorityChannels(d.formId) = {"Organic"}
       /\ \E i \in 1..Len(formSubmissions) :
            /\ formSubmissions[i].formId = d.formId
            /\ formSubmissions[i].channel = "Direct"
            /\ \A j \in 1..(i - 1) : formSubmissions[j].formId # d.formId

(***************************************************************************)
(* Runs over purchases and charges: the channel attribution of charges     *)
(***************************************************************************)
MaxCharges == 1
MaxPurchases == 2

AttrPurchases ==
  { Purchase(W1, "tx1", "Organic", "c1"),
    Purchase(W1, "tx2", "Paid Search", "c2"),
    Purchase(W1, "addCredit", "Direct", "c3"),
    Purchase(W1, "", "Referral", "c4") }

AttrCharges ==
  { Charge(W1, 10000, "Prepaid", "Job Creation", "Machine-Made", "NL", "tx1", ""),
    Charge(W1, 10000, "Prepaid", "Job Creation", "Machine-Made", "NL", "", "tx2"),
    Charge(W1, 10000, "Subscription", "Update", "Machine-Made", "NL", "tx1", "tx2"),
    Charge(W1, 10000, "Prepaid", "Job Creation", "Machine-Made", "NL", "tx9", "tx2"),
    Charge(W1, 10000, "Prepaid", "Top-Up", "Machine-Made", "NL", "", "addCredit"),
    Charge(W1, 10000, "Subscription", "Update", "Machine-Made", "NL", "", "addCredit"),
    Charge(W1, 10000, "Prepaid", "Top-Up", "Machine-Made", "NL", "tx1", "addCredit"),
    Charge(W1, 10000, "Subscription", "Creation", "Human-Made", "", "", ""),
    Charge(W1, 10000, "Invoice", Undef, "Human-Made", Undef, Undef, Undef),
    LegacyCharge(W1, 10000, <<"P1", "NL", "1">>, "perfect", "tx2", "addCredit", {}) }

InitCharges ==
  \/ \E purchases \in SeqsUpTo(AttrPurchases, MaxPurchases),
        charges \in SeqsUpTo(AttrCharges, MaxCharges) :
       Start(Raw(<<>>, charges, <<>>, <<>>, purchases))
  \/ Start(CorruptRaw)

SpecCharges == InitCharges /\ [][Next]_vars

ChargesAttributed == pc \in {"weeks", "weekly", "monthly", "kpis", "subs", "write", "done"}

\* the identifier is non-empty and equals a key of the transaction lookup
IsKey(id) == Truthy(id) /\ id \in DOMAIN txLookup

\* the charge carries the channel and campaign of the lookup entry of id
Adopts(c, id) ==
  c.channel = txLookup[id].channel /\ c.campaign = txLookup[id].campaign

\* the charge carries the plan-type-based channel and no campaign
FallsBack(c) ==
  /\ c.channel = (IF c.planType = "Subscription" THEN "Subscription" ELSE "Unknown")
  /\ c.campaign = ""

\* C3: for every charge, a paymentIdentifier that is a key of the transaction
\* lookup gives that entry's channel and campaign; otherwise an uploadBatchId
\* that is not 'addCredit' and is a key gives that entry's; otherwise the
\* channel is 'Subscription' for planType Subscription and 'Unknown' for any
\* other, and the campaign is ''.
C3_ChargeAttribution ==
  ChargesAttributed =>
    \A c \in Range(stripeCharges) :
      IF IsKey(c.paymentIdentifier) THEN Adopts(c, c.paymentIdentifier)
      ELSE IF c.uploadBatchId # "addCredit" /\ IsKey(c.uploadBatchId)
      THEN Adopts(c, c.uploadBatchId)
      ELSE FallsBack(c)

\* both identifiers of a charge are keys, with different entries, and the
\* charge carries the entry of its paymentIdentifier
C3_Witness ==
  /\ ChargesAttributed
  /\ \E c \in Range(stripeCharges) :
       /\ IsKey(c.paymentIdentifier)
       /\ IsKey(c.uploadBatchId)
       /\ txLookup[c.paymentIdentifier] # txLookup[c.uploadBatchId]
       /\ Adopts(c, c.paymentIdentifier)

\* C4 as stated: a charge whose uploadBatchId is 'addCredit' always falls back
\* to the plan-type-based channel with campaign ''.
C4_Original ==
  ChargesAttributed =>
    \A c \in Range(stripeCharges) : c.uploadBatchId = "addCredit" => FallsBack(c)

\* C4 as amended: a charge whose uploadBatchId is 'addCredit' never takes the
\* lookup entry of 'addCredit'; it falls back to the plan-type-based channel
\* with campaign '' unless its paymentIdentifier is a key of the lookup, in
\* which case it carries that entry's channel and campaign.
C4_AddCredit ==
  ChargesAttributed =>
    \A c \in Range(stripeCharges) :
      c.uploadBatchId = "addCredit" =>
        IF IsKey(c.paymentIdentifier) THEN Adopts(c, c.paymentIdentifier)
        ELSE FallsBack(c)

\* 'addCredit' is a key of the lookup, and a charge with that uploadBatchId
\* and no matching paymentIdentifier has fallen back
C4_Witness ==
  /\ ChargesAttributed
  /\ "addCredit" \in DOMAIN txLookup
  /\ \E c \in Range(stripeCharges) :
       /\ c.uploadBatchId = "addCredit"
       /\ ~IsKey(c.paymentIdentifier)
       /\ FallsBack(c)
       /\ ~Adopts(c, "addCredit")

(***************************************************************************)
(* Runs over charges of both shapes: the legacy normalization              *)
(***************************************************************************)
MaxLegacy == 2

LegacyCharges ==
  { LegacyCharge(W1, 10000, key, IF key = <<>> THEN Undef ELSE "perfect",
                 "tx1", upId, desc) :
      key \in {<<>>, <<"P1", "NL", "1">>},
      upId \in {"addCredit", Undef},
      desc \in {{}, {"subscription"}, {"subscription", "creation"}, {"invoice"}} }

ShapeCharges ==
  LegacyCharges \cup
  { [LegacyCharge(W1, 10000, <<>>, Undef, Undef, "b1", {"invoice"})
       EXCEPT !.country = "DE", !.product = "Human-Made"],
    Charge(W1, 10000, "Prepaid", "Top-Up", "Machine-Made", "NL", "tx1", "addCredit"),
    Charge(W1, 10000, "Invoice", Undef, "Human-Made", Undef, Undef, Undef),
    Charge(W1, 10000, Undef, Undef, Undef, Undef, Undef, Undef) }

InitLegacy ==
  \/ \E charges \in SeqsUpTo(ShapeCharges, MaxLegacy) :
       Start(Raw(<<>>, charges, <<>>, <<>>, <<>>))
  \/ Start(CorruptRaw)

SpecLegacy == InitLegacy /\ [][Next]_vars

ChargesNormalized ==
  pc \in {"attribute", "weeks", "weekly", "monthly", "kpis", "subs", "write", "done"}

\* the record as it was loaded
Loaded(i) == raw.charges.data[i]

\* the record arrived in the legacy shape: a metadata blob and no planType
IsLegacy(c) == c.hasMetadata /\ ~Truthy(c.planType)

\* C5: the legacy normalization is idempotent: applied to the charges that it
\* has already normalized, it changes no field of any record.
C5_NormalizeIdempotent ==
  ChargesNormalized => normalizeAll(stripeCharges) = stripeCharges

\* a legacy record has been rewritten by the first pass, and a second pass
\* leaves it as it is
C5_Witness ==
  /\ pc = "attribute"
  /\ \E i \in 1..Len(stripeCharges) :
       /\ IsLegacy(Loaded(i))
       /\ Loaded(i).metadata.uploadBatchId = "addCredit"
       /\ stripeCharges[i] # Loaded(i)
       /\ stripeCharges[i].planSubtype = "Top-Up"
       /\ normalizeCharge(stripeCharges[i]) = stripeCharges[i]

\* C6 as stated: after normalization every charge has planType, planSubtype
\* and country populated, none unset or empty.
C6_Original ==
  ChargesNormalized =>
    \A c \in Range(stripeCharges) :
      Truthy(c.planType) /\ Truthy(c.planSubtype) /\ Truthy(c.country)

\* C6 as amended: after normalization a charge that arrived in the legacy
\* shape has planType (Subscription, Invoice or Prepaid) and product
\* populated, a planSubtype when its planType is Subscription or Prepaid (for
\* Invoice the planSubtype stays as loaded), a country that is set and is
\* non-empty exactly when the record had one or its metadata has a P1_CC_n
\* key, and paymentIdentifier and uploadBatchId set (possibly ''); a charge
\* that arrived in the flat shape is left as loaded.
C6_Normalized ==
  ChargesNormalized =>
    \A i \in 1..Len(stripeCharges) :
      LET c == stripeCharges[i]
          o == Loaded(i)
      IN IF IsLegacy(o)
         THEN /\ c.planType \in {"Subscription", "Invoice", "Prepaid"}
              /\ Truthy(c.product)
              /\ c.planType \in {"Subscription", "Prepaid"} => Truthy(c.planSubtype)
              /\ c.planType = "Invoice" => c.planSubtype = o.planSubtype
              /\ c.country # Undef
              /\ Truthy(c.country) <=> (Truthy(o.country) \/ o.metadata.key # <<>>)
              /\ c.paymentIdentifier # Undef
              /\ c.uploadBatchId # Undef
         ELSE [c EXCEPT !.channel = Undef, !.campaign = Undef] = o

\* a legacy invoice charge without a country key is normalized to planType
\* Invoice with no planSubtype and the country ''
C6_Witness ==
  /\ ChargesNormalized
  /\ \E i \in 1..Len(stripeCharges) :
       /\ IsLegacy(Loaded(i))
       /\ stripeCharges[i].planType = "Invoice"
       /\ stripeCharges[i].planSubtype = Undef
       /\ stripeCharges[i].country = ""
       /\ stripeCharges[i].product = "Machine-Made"

(***************************************************************************)
(* Runs over ad rows, and runs over ad rows, charges or deals: the weekly  *)
(* sums and their breakdowns                                               *)
(***************************************************************************)
MaxAdRows == 4
MaxBreakRows == 2

InitAds ==
  \/ \E ads \in SeqsUpTo(AdRows, MaxAdRows) :
       Start(Raw(ads, <<>>, <<>>, <<>>, <<>>))
  \/ Start(CorruptRaw)

SpecAds == InitAds /\ [][Next]_vars

\* amounts are whole cents (Stripe's amount / 100)
BreakCharges ==
  { Charge(W1, 10000, "Prepaid", "Top-Up", "Machine-Made", "NL", "tx1", ""),
    Charge(W1, 2550, "Subscription", "Update", "Human-Made", "", "", ""),
    [Charge(W1, 990, Undef, Undef, Undef, Undef, Undef, Undef)
       EXCEPT !.currency = "USD"],
    Charge(W3, 10000, "Invoice", Undef, "Human-Made", "DE", "", "") }

BreakDeals ==
  { Deal(W1, "RequestQuote-nl_1", "SQL", "Won", 100000),
    Deal(W1, "Demo-de_7", "Customer", "Won", 50005),
    Deal(W1, "", "", "Open", 0),
    Deal(W3, "Contact_2", "SQL", "Lost", 0) }

InitBreakCharges ==
  \/ \E charges \in SeqsUpTo(BreakCharges, MaxBreakRows) :
       Start(Raw(<<>>, charges, <<>>, <<>>, <<Purchase(W1, "tx1", "Organic", "c1")>>))
  \/ Start(CorruptRaw)

InitBreakDeals ==
  \/ \E deals \in SeqsUpTo(BreakDeals, MaxBreakRows) :
       Start(Raw(<<>>, <<>>, deals, <<Form(W1, "RequestQuote-nl_1", "Organic", 2)>>, <<>>))
  \/ Start(CorruptRaw)

InitBreakdown == InitAds \/ InitBreakCharges \/ InitBreakDeals

SpecBreakdown == InitBreakdown /\ [][Next]_vars

WeeklyDone == pc \in {"monthly", "kpis", "subs", "write", "done"}

Dist(a, b) == IF a >= b THEN a - b ELSE b - a

\* the sum of a field over the groups of a breakdown
\* the sum of the values of f over the keys in S
RECURSIVE SumOver(_, _)
SumOver(f, S) ==
  IF S = {} THEN 0
  ELSE LET k == CHOOSE x \in S : TRUE IN f[k] + SumOver(f, S \ {k})

SumCounts(b) == SumOver([k \in DOMAIN b |-> b[k].count], DOMAIN b)
SumRevenues(b) == SumOver([k \in DOMAIN b |-> b[k].revenue], DOMAIN b)
SumCosts(b) == SumOver(b, DOMAIN b)
SumTotalCosts(b) == SumOver([k \in DOMAIN b |-> b[k].totalCost], DOMAIN b)
SumMqls(b) == SumOver([k \in DOMAIN b |-> b[k].mqls], DOMAIN b)
SumSqls(b) == SumOver([k \in DOMAIN b |-> b[k].sqls], DOMAIN b)
SumWon(b) == SumOver([k \in DOMAIN b |-> b[k].won], DOMAIN b)

\* a Stripe breakdown partitions its week: counts exactly, revenue within 0.01
StripePartition(w, b) ==
  SumCounts(b) = w.count /\ Dist(SumRevenues(b), w.totalRevenue) <= 10

StripeBreakdowns ==
  \A i \in 1..Len(weeklyStripe) :
    LET w == weeklyStripe[i]
    IN /\ StripePartition(w, w.byPlanType)
       /\ StripePartition(w, w.byProduct)
       /\ StripePartition(w, w.byCountry)
       /\ StripePartition(w, w.byCurrency)
       /\ StripePartition(w, w.byChannel)

FunnelPartition(w, b) ==
  SumMqls(b) = w.mqls /\ SumSqls(b) = w.sqls /\ SumWon(b) = w.won

FunnelBreakdowns ==
  \A i \in 1..Len(weeklyFunnel) :
    LET w == weeklyFunnel[i]
    IN FunnelPartition(w, w.byChannel) /\ FunnelPartition(w, w.byCountry)

\* C7 as stated: in every week the group counts of each Stripe breakdown sum
\* to the week's count and the group revenues to its totalRevenue within 0.01;
\* likewise the ads byCountry, byProduct and byBU costs sum to totalCost, and
\* the funnel byChannel and byCountry mqls/sqls/won to the week's.
C7_Original ==
  WeeklyDone =>
    /\ StripeBreakdowns
    /\ FunnelBreakdowns
    /\ \A i \in 1..Len(weeklyAds) :
         LET w == weeklyAds[i]
         IN /\ Dist(SumCosts(w.byCountry), w.totalCost) <= 10
            /\ Dist(SumCosts(w.byProduct), w.totalCost) <= 10
            /\ Dist(SumTotalCosts(w.byBU), w.totalCost) <= 10

\* the rounding of one group cost and of the total: 0.005 each
AdsTolerance(b) == 5 * (Cardinality(DOMAIN b) + 1)

\* C7 as amended: the same for the Stripe and the funnel breakdowns; the ads
\* byCountry, byProduct and byBU costs sum to totalCost up to the rounding of
\* each group cost and of the total, 0.005 for each of them.
C7_Breakdowns ==
  WeeklyDone =>
    /\ StripeBreakdowns
    /\ FunnelBreakdowns
    /\ \A i \in 1..Len(weeklyAds) :
         LET w == weeklyAds[i]
         IN /\ Dist(SumCosts(w.byCountry), w.totalCost) <= AdsTolerance(w.byCountry)
            /\ Dist(SumCosts(w.byProduct), w.totalCost) <= AdsTolerance(w.byProduct)
            /\ Dist(SumTotalCosts(w.byBU), w.totalCost) <= AdsTolerance(w.byBU)

\* a week of four ad rows in four countries whose rounded country costs sum
\* to 0.02 more than the rounded total
C7_Witness ==
  /\ WeeklyDone
  /\ \E i \in 1..Len(weeklyAds) :
       /\ Cardinality(DOMAIN weeklyAds[i].byCountry) = 4
       /\ SumCosts(weeklyAds[i].byCountry) = weeklyAds[i].totalCost + 20

AdsOfWeek(w) == SelectSeq(googleAds, LAMBDA r : r.week = w)

\* the exact sum of the costs of the rows of a week that satisfy P
CostOfRows(rows) == SumSeq([i \in 1..Len(rows) |-> rows[i].cost])

\* C9: for every week, totalCost is the sum of the cost of all ad rows of the
\* week, mmCost of those with userType 'Machine-Made', hmCost of those with
\* userType 'Human-Made' and brandCost of those with campaignType 'Brand',
\* each rounded to two decimals on output; rows of any other userType count
\* toward totalCost only.
C9_WeeklyAdsCosts ==
  WeeklyDone =>
    /\ Len(weeklyAds) = Len(weeks)
    /\ \A i \in 1..Len(weeklyAds) :
         LET w == weeklyAds[i]
         IN /\ w.week = weeks[i]
            /\ w.totalCost = RoundCents(CostOfRows(AdsOfWeek(w.week)))
            /\ w.mmCost =
                 RoundCents(CostOfRows(SelectSeq(AdsOfWeek(w.week), LAMBDA r : r.userType = "Machine-Made")))
            /\ w.hmCost =
                 RoundCents(CostOfRows(SelectSeq(AdsOfWeek(w.week), LAMBDA r : r.userType = "Human-Made")))
            /\ w.brandCost =
                 RoundCents(CostOfRows(SelectSeq(AdsOfWeek(w.week), LAMBDA r : r.campaignType = "Brand")))

\* the scenario of the specification: costs 100, 200 (Machine-Made) and 50
\* (Human-Made) in one week give totalCost 350, mmCost 200 and hmCost 50
C9_Witness ==
  /\ WeeklyDone
  /\ Len(googleAds) = 3
  /\ {r.cost : r \in Range(googleAds)} = {100000, 200000, 50000}
  /\ \E i \in 1..Len(weeklyAds) :
       /\ weeklyAds[i].week = W1
       /\ weeklyAds[i].totalCost = 350000
       /\ weeklyAds[i].mmCost = 200000
       /\ weeklyAds[i].hmCost = 50000
       /\ weeklyAds[i].brandCost = 0

(***************************************************************************)
(* Runs over deals, one ad row and one charge: the ratios of the output    *)
(***************************************************************************)
MaxRatioDeals == 3
MaxRatioRows == 1

RatioDeals ==
  { Deal(W1, "", "SQL", "Won", 100000),
    Deal(W1, "", "", "Open", 0),
    Deal(W1, "", "Customer", "Lost", 0),
    Deal(W3, "", "", "Won", 50005) }

RatioAds ==
  { Ad(W1, 300000, "NL", "Transcription", "Other", "NB"),
    Ad(W0, 4, "NL", "Transcription", "Other", "NB") }

RatioCharges ==
  { Charge(W1, 100000, "Prepaid", "Top-Up", "Machine-Made", "NL", "", ""),
    Charge(W0, 12340, "Prepaid", "Top-Up", "Machine-Made", "NL", "", "") }

InitRatios ==
  \/ \E deals \in SeqsUpTo(RatioDeals, MaxRatioDeals),
        ads \in SeqsUpTo(RatioAds, MaxRatioRows),
        charges \in SeqsUpTo(RatioCharges, MaxRatioRows) :
       Start(Raw(ads, charges, deals, <<>>, <<>>))
  \/ Start(CorruptRaw)

SpecRatios == InitRatios /\ [][Next]_vars

\* x is n / d * scale rounded to the nearest integer, halves upwards
IsRounded(x, n, d, scale) ==
  /\ x.kind = "num"
  /\ 2 * d * x.v <= 2 * n * scale + d
  /\ 2 * n * scale + d < 2 * d * (x.v + 1)

\* C8: in the written output, monthly mqlToSql is 0 when the month has no
\* MQLs and round(sqls / mqls * 100, 1) otherwise, monthly sqlToWon is 0 when
\* the month has no SQLs and round(won / sqls * 100, 1) otherwise, kpis.roas
\* is 0 when the total ad cost is 0 and round(totalStripeRevenue /
\* totalAdsCost, 2) otherwise; none of them is NaN or Infinity.
C8_GuardedRatios ==
  output.written =>
    /\ \A i \in 1..Len(output.monthly) :
         LET m == output.monthly[i]
         IN /\ m.mqlToSql.kind = "num" /\ m.sqlToWon.kind = "num"
            /\ IF m.mqls = 0 THEN m.mqlToSql = Num(0)
               ELSE IsRounded(m.mqlToSql, m.sqls, m.mqls, 1000)
            /\ IF m.sqls = 0 THEN m.sqlToWon = Num(0)
               ELSE IsRounded(m.sqlToWon, m.won, m.sqls, 1000)
    /\ output.kpis.roas.kind = "num"
    /\ IF output.kpis.totalAdsCost = 0 THEN output.kpis.roas = Num(0)
       ELSE IsRounded(output.kpis.roas, output.kpis.totalStripeRevenue,
                      output.kpis.totalAdsCost, 100)

\* the output has a month without MQLs (rate 0), a month with one SQL among
\* three MQLs (rate 33.3) and a non-zero ROAS
C8_Witness ==
  /\ output.written
  /\ \E i \in 1..Len(output.monthly) :
       output.monthly[i].mqls = 0 /\ output.monthly[i].mqlToSql = Num(0)
  /\ \E i \in 1..Len(output.monthly) :
       /\ output.monthly[i].mqls = 3
       /\ output.monthly[i].sqls = 1
       /\ output.monthly[i].mqlToSql = Num(333)
       /\ output.monthly[i].sqlToWon = Num(1000)
  /\ output.kpis.totalAdsCost > 0
  /\ output.kpis.roas.v > 0

\* C10: every monthly bucket of the output reports an average order value
\* equal to round(wonRevenue / wonCount) when the month's won-deal count is
\* greater than 0, and 0 otherwise.
C10_MonthlyAov ==
  output.written =>
    \A i \in 1..Len(output.monthly) :
      LET m == output.monthly[i]
      IN /\ "dealAOV" \in DOMAIN m
         /\ m.dealAOV = dealAOV(m.wonRevenue, m.won)

(***************************************************************************)
(* fetch-stripe-charges.mjs, subscriptions: getPlanType, getMonthlyAmount  *)
(* and mapSub.  A Stripe subscription is abstracted to its first price     *)
(* item: unit_amount in cents, quantity, recurring.interval and            *)
(* recurring.interval_count; an absent number is 0 and an absent string    *)
(* '', which the code's `|| default` treats like the absent value.  The    *)
(* dates of the subscription and the fields derived from them are left     *)
(* out.  A quotient is the pair <<numerator, denominator>>, in cents.      *)
(***************************************************************************)
StripeSub(hasItem, unit_amount, quantity, interval, interval_count) ==
  [hasItem |-> hasItem, unit_amount |-> unit_amount, quantity |-> quantity,
   interval |-> interval, interval_count |-> interval_count]

\* x || d on numbers
OrNum(x, d) == IF x = 0 THEN d ELSE x

getPlanType(sub) ==
  LET interval == IF sub.hasItem THEN sub.interval ELSE ""
  IN IF interval = "year" THEN "yearly"
     ELSE IF interval = "month" THEN "monthly"
     ELSE "other"

\* a variant that converts a yearly price without its interval count
getMonthlyAmountPerYear(sub) ==
  IF ~sub.hasItem THEN <<0, 1>>
  ELSE LET total == sub.unit_amount * OrNum(sub.quantity, 1)
           interval == OrElse(sub.interval, "month")
           intervalCount == OrNum(sub.interval_count, 1)
       IN IF interval = "year" THEN <<total, 12>>
          ELSE IF interval = "month" THEN <<total, intervalCount>>
          ELSE IF interval = "week" THEN <<total * 52, 12 * intervalCount>>
          ELSE IF interval = "day" THEN <<total * 365, 12 * intervalCount>>
          ELSE <<total, 1>>

getMonthlyAmount(sub) ==
  IF ~sub.hasItem THEN <<0, 1>>
  ELSE LET total == sub.unit_amount * OrNum(sub.quantity, 1)
           interval == OrElse(sub.interval, "month")
           intervalCount == OrNum(sub.interval_count, 1)
       IN IF interval = "year" THEN <<total, 12 * intervalCount>>
          ELSE IF interval = "month" THEN <<total, intervalCount>>
          ELSE IF interval = "week" THEN <<total * 52, 12 * intervalCount>>
          ELSE IF interval = "day" THEN <<total * 365, 12 * intervalCount>>
          ELSE <<total, 1>>

\* Math.round(q * 100) / 100 of a quotient q in currency units, as the set of
\* results in thousandths: the nearest cent, and both neighbouring cents when
\* q lies exactly between them, where the result depends on the binary
\* representation of q * 100
roundToCents(q) ==
  LET n == q[1]
      d == q[2]
      lo == (2 * n) \div (2 * d)
  IN IF 2 * n = 2 * d * lo + d THEN {10 * lo, 10 * (lo + 1)}
     ELSE {10 * ((2 * n + d) \div (2 * d))}

\* the records mapSub(s) can return
mapSub(s) ==
  { [planType |-> getPlanType(s),
     amount |-> IF s.hasItem THEN 10 * s.unit_amount ELSE 0,
     quantity |-> IF s.hasItem THEN OrNum(s.quantity, 1) ELSE 1,
     interval |-> IF s.hasItem THEN s.interval ELSE "",
     intervalCount |-> IF s.hasItem THEN OrNum(s.interval_count, 1) ELSE 1,
     monthlyAmount |-> m] : m \in roundToCents(getMonthlyAmount(s)) }

\* the state in which a function of the fetchers or utilities is called on a
Called(fn, a) ==
  /\ raw = Raw(<<>>, <<>>, <<>>, <<>>, <<>>)
  /\ googleAds = <<>>
  /\ stripeCharges = <<>>
  /\ hubspotDeals = <<>>
  /\ formSubmissions = <<>>
  /\ ga4Purchases = <<>>
  /\ formToChannel = <<>>
  /\ txLookup = <<>>
  /\ weeks = <<>>
  /\ weeklyAds = <<>>
  /\ weeklyFunnel = <<>>
  /\ weeklyStripe = <<>>
  /\ monthlyData = <<>>
  /\ kpis = <<>>
  /\ output = NoOutput
  /\ pc = fn
  /\ stripeSubs = <<>>
  /\ subSnapshot = Null
  /\ weeklySubMetrics = <<>>
  /\ previous = NoOutput
  /\ arg = a
  /\ ret = <<>>
  /\ locals = <<>>
  /\ effects = <<>>

aggVars == <<raw, googleAds, stripeCharges, hubspotDeals, formSubmissions,
             ga4Purchases, formToChannel, txLookup, weeks, weeklyAds,
             weeklyFunnel, weeklyStripe, monthlyData, kpis, output,
             stripeSubs, subSnapshot, weeklySubMetrics, previous>>

MapSub ==
  /\ pc = "mapSub"
  /\ ret' \in mapSub(arg)
  /\ pc' = "returned mapSub"
  /\ UNCHANGED <<arg, aggVars, locals, effects>>

NextMapSub == MapSub

MaxQuantity == 3
MaxIntervalCount == 3

UnitAmounts == {0, 1, 201, 1000, 12000}
Intervals == {"", "year", "month", "week", "day"}

InitMapSub ==
  \E hasItem \in BOOLEAN, unit_amount \in UnitAmounts, quantity \in 0..MaxQuantity,
     interval \in Intervals, interval_count \in 0..MaxIntervalCount :
    Called("mapSub", StripeSub(hasItem, unit_amount, quantity, interval, interval_count))

SpecMapSub == InitMapSub /\ [][NextMapSub]_vars

\* m thousandths is n / d cents rounded to a whole cent
IsNearestCent(m, n, d) ==
  /\ m % 10 = 0
  /\ 2 * d * (m \div 10) - 2 * n <= d
  /\ 2 * n - 2 * d * (m \div 10) <= d

\* the per-period total of the subscription in arg, in cents
TotalOfArg == arg.unit_amount * (IF arg.quantity = 0 THEN 1 ELSE arg.quantity)
CountOfArg == IF arg.interval_count = 0 THEN 1 ELSE arg.interval_count

\* C11 as stated: the monthly amount is the per-period total divided by 12 x
\* intervalCount for a year and by intervalCount for a month, rounded to 2
\* decimals; for a week or a day it is likewise the total divided by a whole
\* multiple of intervalCount, with no calendar factor; no price item gives 0.
C11_Original ==
  pc = "returned mapSub" =>
    IF ~arg.hasItem THEN ret.monthlyAmount = 0
    ELSE IF arg.interval = "year"
      THEN IsNearestCent(ret.monthlyAmount, TotalOfArg, 12 * CountOfArg)
    ELSE IF arg.interval \in {"month", ""}
      THEN IsNearestCent(ret.monthlyAmount, TotalOfArg, CountOfArg)
    ELSE \E k \in 1..31 : IsNearestCent(ret.monthlyAmount, TotalOfArg, k * CountOfArg)

\* C11: the monthly amount is the per-period total divided by 12 x
\* intervalCount for a year and by intervalCount for a month (also when the
\* interval is missing); for a week it is total x 52 / 12 / intervalCount and
\* for a day total x 365 / 12 / intervalCount, the calendar approximations of
\* the weeks and days in a month; each rounded to 2 decimals; a subscription
\* with no price item gives 0.
C11_MonthlyAmount ==
  pc = "returned mapSub" =>
    IF ~arg.hasItem THEN ret.monthlyAmount = 0
    ELSE IF arg.interval = "year"
      THEN IsNearestCent(ret.monthlyAmount, TotalOfArg, 12 * CountOfArg)
    ELSE IF arg.interval \in {"month", ""}
      THEN IsNearestCent(ret.monthlyAmount, TotalOfArg, CountOfArg)
    ELSE IF arg.interval = "week"
      THEN IsNearestCent(ret.monthlyAmount, 52 * TotalOfArg, 12 * CountOfArg)
    ELSE IsNearestCent(ret.monthlyAmount, 365 * TotalOfArg, 12 * CountOfArg)

\* unitAmount 120 per year gives 10.00, and a yearly price with an interval
\* count of 2 has been converted as well
C11_Witness ==
  /\ pc = "returned mapSub"
  /\ arg = StripeSub(TRUE, 12000, 2, "year", 2)
  /\ ret.monthlyAmount = 10000

(***************************************************************************)
(* Runs over subscriptions: the weeks come from ad rows, since the         *)
(* subscriptions add no week to the week list                              *)
(***************************************************************************)
MaxSubs == 2
MaxSubAds == 2

\* records of raw/stripe-subs.json as mapSub writes them, one without
\* monthlyAmount and one without canceledWeek
SubRecords ==
  { [createdWeek |-> W1, canceledWeek |-> NoWeek, monthlyAmount |-> 10000,
     planType |-> "monthly"],
    [createdWeek |-> W1, canceledWeek |-> W3, monthlyAmount |-> 8330,
     planType |-> "yearly"],
    [createdWeek |-> W3, canceledWeek |-> NoWeek, planType |-> "monthly"],
    [createdWeek |-> NoWeek, canceledWeek |-> W1, monthlyAmount |-> 5000,
     planType |-> "other"],
    [createdWeek |-> W3, monthlyAmount |-> 2500, planType |-> "yearly"] }

SubAds == {Ad(w, 1000, "NL", "Transcription", "Other", "NB") : w \in {W1, W3, NoWeek}}

Snapshot == [kind |-> "object", mrr |-> 123450, totalActiveSubs |-> 7]

\* the files of raw/ with a stripe-subs.json
RawSubs(ads, subsFile) ==
  [Raw(ads, <<>>, <<>>, <<>>, <<>>) EXCEPT !.subs = subsFile]

InitSubs ==
  \/ \E ads \in SeqsUpTo(SubAds, MaxSubAds), subs \in SeqsUpTo(SubRecords, MaxSubs) :
       Start(RawSubs(ads, ObjectFile([snapshot |-> Snapshot, subscriptions |-> subs])))
  \/ Start(CorruptRaw)

SpecSubs == InitSubs /\ [][Next]_vars

SubsDone == pc \in {"write", "done"}

\* the subscriptions whose field f is present and holds the week w
SubsIn(f, w) ==
  {j \in 1..Len(stripeSubs) : f \in DOMAIN stripeSubs[j] /\ stripeSubs[j][f] = w}

\* the sum of the monthlyAmount of the subscriptions J, a missing one being 0
MrrOf(J) ==
  SumOver([j \in J |-> IF "monthlyAmount" \in DOMAIN stripeSubs[j]
                       THEN stripeSubs[j].monthlyAmount ELSE 0], J)

SubMetricsOf(m, w) ==
  /\ m.newSubs = Cardinality(SubsIn("createdWeek", w))
  /\ m.newMrr = MrrOf(SubsIn("createdWeek", w))
  /\ m.churnedSubs = Cardinality(SubsIn("canceledWeek", w))
  /\ m.churnedMrr = MrrOf(SubsIn("canceledWeek", w))
  /\ m.netMrr = m.newMrr - m.churnedMrr

\* C12 as stated: for every week w of the week list, weekly.subs reports the
\* number and the summed monthlyAmount of the subscriptions whose createdWeek
\* is w and of those whose canceledWeek is w, and netMrr = newMrr - churnedMrr.
C12_Original ==
  SubsDone =>
    /\ Len(weeklySubMetrics) = Len(weeks)
    /\ \A i \in 1..Len(weeks) :
         /\ weeklySubMetrics[i].week = weeks[i]
         /\ SubMetricsOf(weeklySubMetrics[i], weeks[i])

\* C12: for every non-empty week w of the week list, weekly.subs reports the
\* number and the summed monthlyAmount (a missing one counting 0) of the
\* subscriptions whose createdWeek is w and of those whose canceledWeek is w,
\* and netMrr = newMrr - churnedMrr; the bucket of an empty week '' holds
\* zeros, the subscriptions with an empty createdWeek or canceledWeek being
\* counted in no bucket.
C12_WeeklySubs ==
  SubsDone =>
    /\ Len(weeklySubMetrics) = Len(weeks)
    /\ \A i \in 1..Len(weeks) :
         LET m == weeklySubMetrics[i]
         IN /\ m.week = weeks[i]
            /\ HasWeek(weeks[i]) => SubMetricsOf(m, weeks[i])
            /\ ~HasWeek(weeks[i]) =>
                 /\ m.newSubs = 0 /\ m.newMrr = 0
                 /\ m.churnedSubs = 0 /\ m.churnedMrr = 0 /\ m.netMrr = 0

\* two subscriptions created in one week, one of them cancelled in a later
\* week of the list, whose net MRR is negative
C12_Witness ==
  /\ pc = "done"
  /\ \E i \in 1..Len(weeks) :
       weeklySubMetrics[i].newSubs = 2 /\ weeklySubMetrics[i].newMrr = 18330
  /\ \E i \in 1..Len(weeks) :
       /\ weeklySubMetrics[i].churnedSubs = 1
       /\ weeklySubMetrics[i].netMrr = 0 - 8330

(***************************************************************************)
(* Runs over the files of raw/: each is present, missing or not JSON, and  *)
(* ga4.json and stripe-subs.json may hold an array.  main runs straight    *)
(* through, so a step that is possible is eventually taken.                *)
(***************************************************************************)
SourceAds == <<Ad(W1, 100000, "NL", "Transcription", "Machine-Made", "NB")>>
SourceCharges ==
  <<Charge(W1, 10000, "Prepaid", "Top-Up", "Machine-Made", "NL", "tx1", "")>>
SourceDeals == <<Deal(W1, "Contact_2", "SQL", "Won", 50000)>>
SourceForms == <<Form(W1, "Contact_2", "Organic", 2)>>
SourcePurchases == <<Purchase(W1, "tx1", "Paid Search", "c1")>>
SourceSubs ==
  << [createdWeek |-> W1, canceledWeek |-> NoWeek, monthlyAmount |-> 10000,
      planType |-> "monthly"] >>

FilesOf(data) == {ArrayFile(data), MissingFile, CorruptFile}

Ga4Files ==
  { ObjectFile([formSubmissions |-> SourceForms, purchases |-> SourcePurchases]),
    ArrayFile(SourceForms), MissingFile, CorruptFile }

SubsFiles ==
  { ObjectFile([snapshot |-> Snapshot, subscriptions |-> SourceSubs]),
    ArrayFile(SourceSubs), MissingFile, CorruptFile }

InitSources ==
  \E ads \in FilesOf(SourceAds), charges \in FilesOf(SourceCharges),
     deals \in FilesOf(SourceDeals), ga4 \in Ga4Files, subs \in SubsFiles :
    Start([ads |-> ads, charges |-> charges, deals |-> deals, ga4 |-> ga4,
           subs |-> subs])

SpecSources == InitSources /\ [][Next]_vars /\ WF_vars(Next)

Absent(f) == ~raw[f].exists
AllParse == \A f \in RawFiles : raw[f].exists => raw[f].parses
Written == pc = "done" /\ output.written

\* in the written output, what derives only from an absent source is zero or empty
AbsentSourcesContributeNothing ==
  Written =>
    /\ Absent("ads") =>
         /\ output.kpis.totalAdsCost = 0
         /\ \A i \in 1..Len(output.weekly.ads) :
              /\ output.weekly.ads[i].totalCost = 0
              /\ DOMAIN output.weekly.ads[i].byCountry = {}
              /\ DOMAIN output.weekly.ads[i].byBU = {}
         /\ \A i \in 1..Len(output.monthly) : output.monthly[i].adsCost = 0
    /\ Absent("charges") =>
         /\ output.kpis.totalStripeRevenue = 0
         /\ \A i \in 1..Len(output.weekly.stripe) :
              /\ output.weekly.stripe[i].count = 0
              /\ output.weekly.stripe[i].totalRevenue = 0
              /\ DOMAIN output.weekly.stripe[i].byChannel = {}
         /\ \A i \in 1..Len(output.monthly) : output.monthly[i].stripeRevenue = 0
    /\ Absent("deals") =>
         /\ output.kpis.totalMQLs = 0 /\ output.kpis.totalSQLs = 0
         /\ output.kpis.totalWon = 0 /\ output.kpis.totalDealRevenue = 0
         /\ \A i \in 1..Len(output.weekly.funnel) :
              /\ output.weekly.funnel[i].mqls = 0
              /\ DOMAIN output.weekly.funnel[i].byChannel = {}
         /\ \A i \in 1..Len(output.monthly) :
              output.monthly[i].mqls = 0 /\ output.monthly[i].wonRevenue = 0
    /\ (Absent("ga4") \/ raw.ga4.isArray) =>
         /\ output.kpis.totalLeads = 0
         /\ \A i \in 1..Len(output.weekly.funnel) : output.weekly.funnel[i].leads = 0
         /\ \A i \in 1..Len(output.monthly) : output.monthly[i].leads = 0
         /\ \A i \in 1..Len(output.weekly.stripe) :
              DOMAIN output.weekly.stripe[i].byChannel \subseteq {"Unknown", "Subscription"}
    /\ Absent("subs") =>
         /\ output.subSnapshot = Null
         /\ \A i \in 1..Len(output.weekly.subs) :
              /\ output.weekly.subs[i].newSubs = 0
              /\ output.weekly.subs[i].churnedSubs = 0
              /\ output.weekly.subs[i].netMrr = 0
    /\ (\A f \in RawFiles : Absent(f)) =>
         /\ output.weekly.ads = <<>> /\ output.weekly.funnel = <<>>
         /\ output.weekly.stripe = <<>> /\ output.weekly.subs = <<>>
         /\ output.monthly = <<>>
         /\ output.dateRange.start = NoWeek /\ output.dateRange.end = NoWeek
         /\ \A k \in DOMAIN output.kpis \ {"roas"} : output.kpis[k] = 0
         /\ output.kpis.roas = Num(0)
         /\ output.subSnapshot = Null

\* C13: whichever of the five sources are absent, a run whose present files
\* parse completes and writes the output document, and in it every aggregate
\* derived only from an absent source is zero or empty (with all five absent:
\* no week, no month, dateRange '' to '', all KPI totals 0, roas 0, subSnapshot
\* null); a web-analytics bundle that is an array counts as an empty bundle.
C13_MissingSources ==
  /\ []AbsentSourcesContributeNothing
  /\ AllParse => <>Written

\* a run with all five sources absent has written its output
C13_Witness == Written /\ \A f \in RawFiles : Absent(f)

\* the number of the records of subs created in week w
CreatedIn(subs, w) ==
  Cardinality({j \in 1..Len(subs) :
                 "createdWeek" \in DOMAIN subs[j] /\ subs[j].createdWeek = w})

\* C14: the subscription source is accepted as an object with subscriptions
\* and snapshot, whose subscriptions feed the weekly subscription metrics and
\* whose snapshot is passed through, and as a bare array, whose records are
\* the subscription set of the weekly metrics while the snapshot is null.
\* The load takes the subscriptions of an array to be the empty list.
C14_SubsShapes ==
  Written =>
    /\ (raw.subs.exists /\ ~raw.subs.isArray) =>
         /\ output.subSnapshot = raw.subs.data.snapshot
         /\ \A i \in 1..Len(weeks) : weeks[i] # NoWeek =>
              output.weekly.subs[i].newSubs = CreatedIn(raw.subs.data.subscriptions, weeks[i])
    /\ (raw.subs.exists /\ raw.subs.isArray) =>
         /\ output.subSnapshot = Null
         /\ \A i \in 1..Len(weeks) : weeks[i] # NoWeek =>
              output.weekly.subs[i].newSubs = CreatedIn(raw.subs.data, weeks[i])

\* the step that writes the document: the last one, taken once, with every
\* aggregate built for the weeks collected
IsTerminalWrite ==
  /\ pc = "write" /\ pc' = "done"
  /\ ~output.written /\ output'.written
  /\ Len(weeklyAds) = Len(weeks) /\ Len(weeklyFunnel) = Len(weeks)
  /\ Len(weeklyStripe) = Len(weeks) /\ Len(weeklySubMetrics) = Len(weeks)
  /\ kpis # <<>>

\* C16: in every run the output document is written at most once, by the last
\* step, after the lookups, the enrichment and the aggregates are complete;
\* when a present input file is not JSON the run aborts with the error
\* leaving main and the output document is never written.
C16_SingleTerminalWrite ==
  /\ [][output' # output => IsTerminalWrite]_vars
  /\ [](output.written => pc = "done")
  /\ [](~AllParse => ~output.written /\ pc \in {"load", "threw"})
  /\ ~AllParse => <>[](pc = "threw")

\* a run has aborted on a file that is not JSON while another source was
\* present and well-formed
C16_Witness ==
  /\ pc = "threw" /\ ~output.written
  /\ raw.ads.exists /\ raw.ads.parses
  /\ raw.subs.exists /\ ~raw.subs.parses

(***************************************************************************)
(* Two runs of main over the same raw/: the second starts when the first   *)
(* has written, and previous keeps the document of the first.              *)
(***************************************************************************)
Rerun ==
  /\ pc = "done"
  /\ ~previous.written
  /\ previous' = output
  /\ output' = NoOutput
  /\ pc' = "load"
  /\ googleAds' = <<>> /\ stripeCharges' = <<>> /\ hubspotDeals' = <<>>
  /\ formSubmissions' = <<>> /\ ga4Purchases' = <<>>
  /\ formToChannel' = <<>> /\ txLookup' = <<>> /\ weeks' = <<>>
  /\ weeklyAds' = <<>> /\ weeklyFunnel' = <<>> /\ weeklyStripe' = <<>>
  /\ monthlyData' = <<>> /\ kpis' = <<>>
  /\ stripeSubs' = <<>> /\ subSnapshot' = Null /\ weeklySubMetrics' = <<>>
  /\ UNCHANGED <<raw, arg, ret,
                 locals, effects>>

NextRerun == Next \/ Rerun

InitRerun == InitSources \/ InitCharges

SpecRerun == InitRerun /\ [][NextRerun]_vars

\* the document without its run timestamp
WithoutUpdatedAt(doc) == [f \in DOMAIN doc \ {"updatedAt"} |-> doc[f]]

MonthlyAbort ==
  /\ pc = "monthly"
  /\ getMonthThrows(weeks)
  /\ pc' = "threw"
  /\ UNCHANGED <<raw, googleAds, stripeCharges, hubspotDeals, formSubmissions,
                 ga4Purchases, formToChannel, txLookup, weeks, weeklyAds,
                 weeklyFunnel, weeklyStripe, monthlyData, kpis, output,
                 stripeSubs, subSnapshot, weeklySubMetrics, previous, arg, ret,
                 locals, effects>>

NextOptional == Next \/ MonthlyAbort

\* the record r without the fields absent
Without(r, absent) == [f \in DOMAIN r \ absent |-> r[f]]

OptAd == Ad(W1, 100000, "NL", "Transcription", "Machine-Made", "NB")

\* an ad row with and without clicks and conversions, and one without a week
OptAds ==
  { OptAd @@ [clicks |-> 12, conversions |-> 3],
    OptAd,
    [OptAd EXCEPT !.week = UndefWeek] }

FullDeal == Deal(W1, "Contact_2", "SQL", "Won", 50000) @@ [closeWeek |-> W2]

\* the sets of optional fields that a record lacks: none, each one, all
Absences(fields) == {{}} \cup {{f} : f \in fields} \cup {fields}

\* the field f of a record, absent when the record lacks it
OrAbsent(f, absent, v) == IF f \in absent THEN Undef ELSE v

\* a won deal with closeWeek, formId or amount absent
OptDeals ==
  { Without([FullDeal EXCEPT !.formId = OrAbsent("formId", absent, "Contact_2")],
            absent \ {"formId"}) :
      absent \in Absences({"closeWeek", "formId", "amount"}) }

\* a prepaid charge with any of planSubtype, country, paymentIdentifier and
\* uploadBatchId absent, and a legacy charge whose metadata and description
\* hold nothing the patterns recognise
OptCharges ==
  { Charge(W1, 10000, "Prepaid", OrAbsent("planSubtype", absent, "Top-Up"),
           "Machine-Made", OrAbsent("country", absent, "NL"),
           OrAbsent("paymentIdentifier", absent, "tx1"),
           OrAbsent("uploadBatchId", absent, "tx1")) :
      absent \in Absences({"planSubtype", "country", "paymentIdentifier",
                           "uploadBatchId"}) }
    \cup {LegacyCharge(W1, 10000, <<>>, Undef, Undef, Undef, {})}

FullSub == [createdWeek |-> W1, canceledWeek |-> W1, monthlyAmount |-> 10000,
            planType |-> "monthly"]

OptSubs ==
  {Without(FullSub, absent) : absent \in Absences({"createdWeek", "canceledWeek"})}

InitOptional ==
  \/ \E ad \in OptAds, deal \in OptDeals, charge \in OptCharges, sub \in OptSubs :
       Start([Raw(<<ad>>, <<charge>>, <<FullDeal, deal>>, SourceForms, SourcePurchases)
                EXCEPT !.subs = ObjectFile([snapshot |-> Snapshot,
                                            subscriptions |-> <<sub>>])])
  \/ Start(CorruptRaw)

SpecOptional == InitOptional /\ [][NextOptional]_vars /\ WF_vars(NextOptional)

\* every field the aggregation requires is present: the files parse and the
\* ad rows and the charges carry their week
RequiredPresent ==
  /\ AllParse
  /\ \A i \in 1..Len(raw.ads.data) : raw.ads.data[i].week # UndefWeek
  /\ \A i \in 1..Len(raw.charges.data) : raw.charges.data[i].week # UndefWeek

\* the bucket of week w in a weekly list of the output
BucketsOf(list, w) == {i \in 1..Len(list) : list[i].week = w}

\* in the written document an absent optional value reads as '', 0 or 'Unknown'
AbsentReadsAsDefault ==
  /\ \A i \in 1..Len(raw.deals.data) :
       LET d == raw.deals.data[i]
           o == output.deals[i]
       IN /\ "closeWeek" \notin DOMAIN d => o.closeWeek = NoWeek
          /\ "amount" \notin DOMAIN d => o.amount = 0
          /\ d.formId = Undef => o.formId = "" /\ o.channel = "Unknown"
  /\ output.kpis.totalDealRevenue =
       SumOver([i \in 1..Len(raw.deals.data) |->
                  IF "amount" \in DOMAIN raw.deals.data[i] /\ raw.deals.data[i].status = "Won"
                  THEN raw.deals.data[i].amount ELSE 0],
               1..Len(raw.deals.data))
  /\ \A i \in 1..Len(raw.charges.data) :
       LET c == raw.charges.data[i]
           n == stripeCharges[i]
       IN \A b \in BucketsOf(output.weekly.stripe, c.week) :
            LET w == output.weekly.stripe[b]
            IN /\ "undefined" \notin DOMAIN w.byCountry
               /\ "undefined" \notin DOMAIN w.byChannel
               /\ (~c.hasMetadata /\ c.country = Undef) => "Unknown" \in DOMAIN w.byCountry
               /\ (~c.hasMetadata /\ c.paymentIdentifier = Undef /\ c.uploadBatchId = Undef)
                    => n.channel = "Unknown" /\ "Unknown" \in DOMAIN w.byChannel
               /\ (~c.hasMetadata /\ c.planSubtype = Undef /\ Len(raw.charges.data) = 1)
                    => /\ w.seg["all.prepaid.all"].count = 1
                       /\ w.seg["all.prepaid.topup"].count = 0
                       /\ w.seg["all.prepaid.job"].count = 0
               /\ (c.hasMetadata /\ c.metadata = NoMeta /\ c.description = {})
                    => /\ n.country = "" /\ "Unknown" \in DOMAIN w.byCountry
                       /\ n.product = "Machine-Made" /\ n.planType = "Prepaid"
                       /\ n.planSubtype = "Job Creation"
                       /\ n.paymentIdentifier = "" /\ n.uploadBatchId = ""
                       /\ n.channel = "Unknown"
  /\ \A i \in 1..Len(weeks) :
       /\ output.weekly.subs[i].newSubs = CreatedIn(stripeSubs, weeks[i])
       /\ output.weekly.subs[i].churnedSubs = Cardinality(SubsIn("canceledWeek", weeks[i]))
       /\ output.weekly.ads[i].totalCost =
            round(sumCost(SelectSeq(raw.ads.data, LAMBDA r : r.week = weeks[i])))

\* C17: for every input in which any of the optional fields is absent (ad
\* clicks / conversions, deal closeWeek / formId / amount, charge planSubtype /
\* country / paymentIdentifier / uploadBatchId, subscription createdWeek /
\* canceledWeek), and for legacy charges whose metadata holds no recognised
\* pattern, the run throws nothing, reaches the terminal write, and reads the
\* absent value as empty, zero or 'Unknown'.
C17_OptionalFields ==
  /\ [](RequiredPresent => pc # "threw")
  /\ RequiredPresent => <>Written
  /\ []((RequiredPresent /\ Written) => AbsentReadsAsDefault)

\* a run has written whose deal has neither closeWeek, formId nor amount, whose
\* charge has none of its optional fields, and whose subscription has no week
C17_Witness ==
  /\ Written
  /\ DOMAIN raw.deals.data[2] \cap {"closeWeek", "amount"} = {}
  /\ raw.deals.data[2].formId = Undef
  /\ raw.charges.data[1].planSubtype = Undef /\ raw.charges.data[1].country = Undef
  /\ raw.charges.data[1].paymentIdentifier = Undef
  /\ raw.charges.data[1].uploadBatchId = Undef
  /\ ~raw.charges.data[1].hasMetadata
  /\ DOMAIN raw.subs.data.subscriptions[1] \cap {"createdWeek", "canceledWeek"} = {}
  /\ "clicks" \notin DOMAIN raw.ads.data[1]

(***************************************************************************)
(* utils: classifyChannel(source, medium).  A string is the sequence of    *)
(* its characters; an argument is a string, null or undefined.             *)
(***************************************************************************)
Str(chars) == [kind |-> "string", chars |-> chars]
Undefined == [kind |-> "undefined"]

UpperCase == <<"A", "B", "C", "D", "E", "F", "G", "H", "I", "J", "K", "L", "M", "N", "O", "P", "Q", "R", "S", "T", "U", "V", "W", "X", "Y", "Z">>
LowerCase == <<"a", "b", "c", "d", "e", "f", "g", "h", "i", "j", "k", "l", "m", "n", "o", "p", "q", "r", "s", "t", "u", "v", "w", "x", "y", "z">>

\* String.prototype.toLowerCase
toLowerCase(str) ==
  [i \in 1..Len(str) |->
     IF \E k \in 1..Len(UpperCase) : UpperCase[k] = str[i]
     THEN LowerCase[CHOOSE k \in 1..Len(UpperCase) : UpperCase[k] = str[i]]
     ELSE str[i]]

\* String.prototype.includes
includes(str, sub) ==
  \E i \in 0..(Len(str) - Len(sub)) : SubSeq(str, i + 1, i + Len(sub)) = sub

\* x || '' on an argument that is a string, null or undefined
orEmpty(x) == IF x.kind = "string" THEN x.chars ELSE <<>>

\* a variant that tests the direct rule before the organic one
classifyChannelDirectFirst(source, medium) ==
  LET src == toLowerCase(orEmpty(source))
      med == toLowerCase(orEmpty(medium))
  IN IF includes(med, <<"c", "p", "c">>) \/ includes(med, <<"p", "p", "c">>)
        \/ includes(med, <<"p", "a", "i", "d">>)
     THEN IF includes(src, <<"b", "r", "a", "n", "d">>) \/ includes(med, <<"b", "r", "a", "n", "d">>)
          THEN "Paid Search Brand"
          ELSE "Paid Search Generic"
     ELSE IF src = <<"(", "d", "i", "r", "e", "c", "t", ")">> \/ src = <<"d", "i", "r", "e", "c", "t">>
             \/ (src = <<>> /\ med = <<>>)
     THEN "Direct"
     ELSE IF med = <<"o", "r", "g", "a", "n", "i", "c">> \/ med = <<"s", "e", "o">> THEN "Organic"
     ELSE IF med = <<"r", "e", "f", "e", "r", "r", "a", "l">> THEN "Referral"
     ELSE IF med = <<"e", "m", "a", "i", "l">> THEN "Email"
     ELSE "Other"

classifyChannel(source, medium) ==
  LET src == toLowerCase(orEmpty(source))
      med == toLowerCase(orEmpty(medium))
  IN IF includes(med, <<"c", "p", "c">>) \/ includes(med, <<"p", "p", "c">>)
        \/ includes(med, <<"p", "a", "i", "d">>)
     THEN IF includes(src, <<"b", "r", "a", "n", "d">>) \/ includes(med, <<"b", "r", "a", "n", "d">>)
          THEN "Paid Search Brand"
          ELSE "Paid Search Generic"
     ELSE IF med = <<"o", "r", "g", "a", "n", "i", "c">> \/ med = <<"s", "e", "o">> THEN "Organic"
     ELSE IF src = <<"(", "d", "i", "r", "e", "c", "t", ")">> \/ src = <<"d", "i", "r", "e", "c", "t">>
             \/ (src = <<>> /\ med = <<>>)
     THEN "Direct"
     ELSE IF med = <<"r", "e", "f", "e", "r", "r", "a", "l">> THEN "Referral"
     ELSE IF med = <<"e", "m", "a", "i", "l">> THEN "Email"
     ELSE "Other"

ClassifyChannel ==
  /\ pc = "classifyChannel"
  /\ ret' = classifyChannel(arg[1], arg[2])
  /\ pc' = "returned classifyChannel"
  /\ UNCHANGED <<arg, aggVars, locals, effects>>

NextClassifyChannel == ClassifyChannel

\* the sources and media of the sessions: GA4's sessionSource and sessionMedium
Sources ==
  {Null, Undefined} \cup
  {Str(c) : c \in {<<>>,
              <<"(", "d", "i", "r", "e", "c", "t", ")">>,
              <<"d", "i", "r", "e", "c", "t">>,
              <<"D", "i", "r", "e", "c", "t">>,
              <<"g", "o", "o", "g", "l", "e">>,
              <<"B", "r", "a", "n", "d">>,
              <<"n", "e", "w", "s", "l", "e", "t", "t", "e", "r">>,
              <<"b", "r", "a", "n", "d", "-", "d", "i", "r", "e", "c", "t">>}}

Mediums ==
  {Null, Undefined} \cup
  {Str(c) : c \in {<<>>,
              <<"c", "p", "c">>,
              <<"C", "P", "C">>,
              <<"p", "p", "c", "-", "b", "r", "a", "n", "d">>,
              <<"P", "a", "i", "d", " ", "S", "o", "c", "i", "a", "l">>,
              <<"o", "r", "g", "a", "n", "i", "c">>,
              <<"S", "E", "O">>,
              <<"r", "e", "f", "e", "r", "r", "a", "l">>,
              <<"E", "m", "a", "i", "l">>,
              <<"(", "n", "o", "n", "e", ")">>,
              <<"o", "r", "g", "a", "n", "i", "c", "-", "c", "p", "c">>}}

InitClassifyChannel ==
  \E source \in Sources, medium \in Mediums :
    Called("classifyChannel", <<source, medium>>)

SpecClassifyChannel == InitClassifyChannel /\ [][NextClassifyChannel]_vars

Channels == {"Paid Search Brand", "Paid Search Generic", "Organic", "Direct",
             "Referral", "Email", "Other"}

\* the lower-cased source and medium of the call
SrcOfArg == toLowerCase(orEmpty(arg[1]))
MedOfArg == toLowerCase(orEmpty(arg[2]))

\* the rules an input can satisfy
PaidRule == \E w \in {<<"c", "p", "c">>, <<"p", "p", "c">>, <<"p", "a", "i", "d">>} : includes(MedOfArg, w)
OrganicRule == MedOfArg \in {<<"o", "r", "g", "a", "n", "i", "c">>, <<"s", "e", "o">>}
DirectRule ==
  \/ SrcOfArg \in {<<"(", "d", "i", "r", "e", "c", "t", ")">>, <<"d", "i", "r", "e", "c", "t">>}
  \/ (SrcOfArg = <<>> /\ MedOfArg = <<>>)
ReferralRule == MedOfArg = <<"r", "e", "f", "e", "r", "r", "a", "l">>
EmailRule == MedOfArg = <<"e", "m", "a", "i", "l">>

\* C18: classifyChannel returns, for every source and medium including null
\* and empty ones, exactly one of the seven channels, and when several rules
\* apply the result follows the priority paid > organic > direct > referral >
\* email > other.
C18_ClassifyChannel ==
  pc = "returned classifyChannel" =>
    /\ ret \in Channels
    /\ PaidRule => ret \in {"Paid Search Brand", "Paid Search Generic"}
    /\ (~PaidRule /\ OrganicRule) => ret = "Organic"
    /\ (~PaidRule /\ ~OrganicRule /\ DirectRule) => ret = "Direct"
    /\ (~PaidRule /\ ~OrganicRule /\ ~DirectRule /\ ReferralRule) => ret = "Referral"
    /\ (~PaidRule /\ ~OrganicRule /\ ~DirectRule /\ ~ReferralRule /\ EmailRule)
         => ret = "Email"
    /\ (~PaidRule /\ ~OrganicRule /\ ~DirectRule /\ ~ReferralRule /\ ~EmailRule)
         => ret = "Other"

\* the call has returned for an organic medium with a direct source
C18_Witness ==
  /\ pc = "returned classifyChannel"
  /\ OrganicRule /\ DirectRule /\ ret = "Organic"

(***************************************************************************)
(* fetch-google-ads: parseCampaignName(name)                               *)
(***************************************************************************)
\* String.prototype.toUpperCase
toUpperCase(str) ==
  [i \in 1..Len(str) |->
     IF \E k \in 1..Len(LowerCase) : LowerCase[k] = str[i]
     THEN UpperCase[CHOOSE k \in 1..Len(LowerCase) : LowerCase[k] = str[i]]
     ELSE str[i]]

\* String(x), the text a regular expression tests for an argument x
stringOf(x) ==
  IF x.kind = "string" THEN x.chars
  ELSE IF x.kind = "null" THEN <<"n", "u", "l", "l">>
  ELSE <<"u", "n", "d", "e", "f", "i", "n", "e", "d">>

\* whether sub occurs in str at position i
matchesAt(str, i, sub) ==
  i >= 1 /\ i + Len(sub) - 1 <= Len(str) /\ SubSeq(str, i, i + Len(sub) - 1) = sub

\* /_Light[_( ]/i.test(name), for the word Light or Heavy
testWeight(name, word) ==
  \E c \in {"_", "(", " "} :
    includes(toLowerCase(stringOf(name)), <<"_">> \o word \o <<c>>)

\* the capture of name.match(/_NB_(.+?)_\(GA\)/): at the first _NB_ that a
\* _(GA) follows after at least one character, the text up to the first such
\* _(GA); the empty set when there is no match
nbMatch(str) ==
  LET ends(i) == {j \in (i + 5)..Len(str) : matchesAt(str, j, <<"_", "(", "G", "A", ")">>)}
      starts == {i \in 1..Len(str) : matchesAt(str, i, <<"_", "N", "B", "_">>) /\ ends(i) # {}}
  IN IF starts = {} THEN {}
     ELSE LET i == CHOOSE x \in starts : \A y \in starts : x <= y
              j == CHOOSE x \in ends(i) : \A y \in ends(i) : x <= y
          IN {SubSeq(str, i + 4, j - 1)}

\* split('//')[0]
beforeComment(str) ==
  LET at == {i \in 1..Len(str) : matchesAt(str, i, <<"/", "/">>)}
  IN IF at = {} THEN str
     ELSE SubSeq(str, 1, (CHOOSE x \in at : \A y \in at : x <= y) - 1)

\* str without its leading characters in chars
RECURSIVE stripStart(_, _)
stripStart(str, chars) ==
  IF str # <<>> /\ Head(str) \in chars THEN stripStart(Tail(str), chars) ELSE str

\* str without its trailing characters in chars
RECURSIVE stripEnd(_, _)
stripEnd(str, chars) ==
  IF str # <<>> /\ str[Len(str)] \in chars
  THEN stripEnd(SubSeq(str, 1, Len(str) - 1), chars)
  ELSE str

\* trim()
trim(str) == stripEnd(stripStart(str, {" "}), {" "})

QualityWords == {<<"a", "u", "t", "o", "m", "a", "t", "i", "c">>, <<"m", "a", "n", "u", "a", "l">>, <<"l", "i", "g", "h", "t">>, <<"h", "e", "a", "v", "y">>}

\* raw.replace(/_(Automatic|Manual|Light|Heavy)/gi, '')
RECURSIVE removeQuality(_)
removeQuality(str) ==
  IF str = <<>> THEN <<>>
  ELSE LET ws == {w \in QualityWords : matchesAt(toLowerCase(str), 1, <<"_">> \o w)}
       IN IF ws # {}
          THEN removeQuality(SubSeq(str, Len(CHOOSE w \in ws : TRUE) + 2, Len(str)))
          ELSE <<Head(str)>> \o removeQuality(Tail(str))

\* the product read from the capture of the NB pattern
productOf(capture) ==
  LET text == stripEnd(removeQuality(trim(beforeComment(capture))), {"_", " "})
  IN IF text = <<>> THEN <<"O", "t", "h", "e", "r">> ELSE text

\* name.match(...) of a name that is null or undefined throws a TypeError;
\* a name holding _Brand_ returns before the match
parseCampaignNameThrows(name) ==
  /\ name.kind # "string"
  /\ ~includes(toLowerCase(stringOf(name)), <<"_", "b", "r", "a", "n", "d", "_">>)

parseCampaignName(name) ==
  LET country == toUpperCase(SubSeq(orEmpty(name), 1,
                                    IF Len(orEmpty(name)) < 2 THEN Len(orEmpty(name)) ELSE 2))
  IN IF includes(toLowerCase(stringOf(name)), <<"_", "b", "r", "a", "n", "d", "_">>)
     THEN [country |-> country, product |-> <<"B", "r", "a", "n", "d">>, userType |-> "Brand",
           campaignType |-> "Brand"]
     ELSE [country |-> country,
           product |-> IF nbMatch(name.chars) = {} THEN <<"O", "t", "h", "e", "r">>
                       ELSE productOf(CHOOSE c \in nbMatch(name.chars) : TRUE),
           userType |-> IF testWeight(name, <<"h", "e", "a", "v", "y">>) THEN "Human-Made"
                        ELSE IF testWeight(name, <<"l", "i", "g", "h", "t">>) THEN "Machine-Made"
                        ELSE "Other",
           campaignType |-> "NB"]

ParseCampaignName ==
  /\ pc = "parseCampaignName"
  /\ ~parseCampaignNameThrows(arg)
  /\ ret' = parseCampaignName(arg)
  /\ pc' = "returned parseCampaignName"
  /\ UNCHANGED <<arg, aggVars, locals, effects>>

ParseCampaignNameThrow ==
  /\ pc = "parseCampaignName"
  /\ parseCampaignNameThrows(arg)
  /\ pc' = "threw"
  /\ UNCHANGED <<arg, ret, aggVars, locals, effects>>

NextParseCampaignName == ParseCampaignName \/ ParseCampaignNameThrow

\* campaign names: a prefix, the part that names the campaign type and the
\* product, and the suffix of the account
NamePrefixes == {<<"N", "L", "_", "(", "n", "l", ")", "_", "S", "E", "A">>,
                 <<"d", "e", "_", "(", "d", "e", ")", "_", "D", "G", "N">>,
                 <<"X">>}

NameMiddles ==
  {<<"_", "N", "B", "_", "T", "r", "a", "n", "s", "c", "r", "i", "p", "t", "i", "o", "n", "_", "A", "u", "t", "o", "m", "a", "t", "i", "c", "_", "L", "i", "g", "h", "t">>,
   <<"_", "N", "B", "_", "S", "u", "b", "t", "i", "t", "l", "e", "s", "_", "M", "a", "n", "u", "a", "l", "_", "H", "e", "a", "v", "y">>,
   <<"_", "N", "B", "_", "A", "I", " ", "M", "e", "e", "t", "i", "n", "g", " ", "N", "o", "t", "e", "s">>,
   <<"_", "B", "r", "a", "n", "d", "_", "A", "m", "b", "e", "r", "s", "c", "r", "i", "p", "t">>,
   <<"_", "b", "r", "a", "n", "d", "_", "x">>,
   <<"_", "N", "B", "_", "L", "i", "g", "h", "t">>,
   <<"_", "n", "b", "_", "T", "r", "a", "n", "s", "c", "r", "i", "p", "t", "i", "o", "n", "_", "L", "i", "g", "h", "t">>,
   <<"_", "N", "B", "_", "T", "r", "a", "n", "s", "c", "r", "i", "p", "t", "i", "o", "n", "/", "/", "t", "e", "s", "t", " ", "_", "L", "i", "g", "h", "t", " ">>,
   <<>>}

NameSuffixes == {<<"_", "(", "G", "A", ")">>, <<>>, <<" ", "(", "G", "A", ")">>}

CampaignNames ==
  {Null, Undefined, Str(<<>>)} \cup
  {Str(a \o b \o c) : a \in NamePrefixes, b \in NameMiddles, c \in NameSuffixes}

InitParseCampaignName ==
  \E name \in CampaignNames : Called("parseCampaignName", name)

SpecParseCampaignName == InitParseCampaignName /\ [][NextParseCampaignName]_vars

\* C19: parseCampaignName never fails: for every name, including null,
\* undefined, the empty string and names outside the naming convention, it
\* returns a record {country, product, userType, campaignType} without
\* throwing, product and userType being 'Other' and country '' when nothing
\* can be parsed.  A name that is null or undefined throws at name.match.
C19_ParseNeverFails ==
  /\ pc # "threw"
  /\ pc = "returned parseCampaignName" =>
       /\ DOMAIN ret = {"country", "product", "userType", "campaignType"}
       /\ orEmpty(arg) = <<>> =>
            /\ ret.country = <<>> /\ ret.product = <<"O", "t", "h", "e", "r">>
            /\ ret.userType = "Other"

(***************************************************************************)
(* computeSegments(rows), called on a list of charges                      *)
(***************************************************************************)
ComputeSegments ==
  /\ pc = "computeSegments"
  /\ ret' = computeSegments(arg)
  /\ pc' = "returned computeSegments"
  /\ UNCHANGED <<arg, aggVars, locals, effects>>

NextComputeSegments == ComputeSegments

MaxSegRows == 2

\* charges of every product, plan type and subtype; the amount tells the
\* products apart
SegCharges ==
  { Charge(W1, IF product = "Machine-Made" THEN 10000 ELSE 2550, planType,
           planSubtype, product, "NL", "", "") :
      product \in {"Machine-Made", "Human-Made"},
      planType \in {"Prepaid", "Subscription", "Invoice"},
      planSubtype \in {"Top-Up", "Job Creation", "Update", "Creation", Undef} }

InitComputeSegments ==
  \E rows \in SeqsUpTo(SegCharges, MaxSegRows) : Called("computeSegments", rows)

SpecComputeSegments == InitComputeSegments /\ [][NextComputeSegments]_vars

\* the 16 segment keys, each with its product, plan-type and subtype part
KeyParts ==
  ("all.all.all" :> <<"all", "all", "all">>)
  @@ ("all.prepaid.all" :> <<"all", "Prepaid", "all">>)
  @@ ("all.prepaid.topup" :> <<"all", "Prepaid", "Top-Up">>)
  @@ ("all.prepaid.job" :> <<"all", "Prepaid", "Job Creation">>)
  @@ ("all.sub.all" :> <<"all", "Subscription", "all">>)
  @@ ("all.sub.update" :> <<"all", "Subscription", "Update">>)
  @@ ("all.sub.creation" :> <<"all", "Subscription", "Creation">>)
  @@ ("mm.all.all" :> <<"mm", "all", "all">>)
  @@ ("mm.prepaid.all" :> <<"mm", "Prepaid", "all">>)
  @@ ("mm.prepaid.topup" :> <<"mm", "Prepaid", "Top-Up">>)
  @@ ("mm.prepaid.job" :> <<"mm", "Prepaid", "Job Creation">>)
  @@ ("mm.sub.all" :> <<"mm", "Subscription", "all">>)
  @@ ("mm.sub.update" :> <<"mm", "Subscription", "Update">>)
  @@ ("mm.sub.creation" :> <<"mm", "Subscription", "Creation">>)
  @@ ("hm.all.all" :> <<"hm", "all", "all">>)
  @@ ("inv.all.all" :> <<"inv", "all", "all">>)

\* whether the charge r satisfies the predicate of the key k
InSegment(r, k) ==
  LET parts == KeyParts[k]
  IN /\ \/ parts[1] = "all"
        \/ parts[1] = "mm" /\ r.product = "Machine-Made" /\ r.planType # "Invoice"
        \/ parts[1] = "hm" /\ r.product = "Human-Made"
        \/ parts[1] = "inv" /\ r.planType = "Invoice"
     /\ parts[2] = "all" \/ r.planType = parts[2]
     /\ parts[3] = "all" \/ r.planSubtype = parts[3]

\* the charges of the call that satisfy the predicate of the key k
SegmentOfArg(k) == {i \in 1..Len(arg) : InSegment(arg[i], k)}

\* C20: computeSegments returns the same 16 segment keys for every list of
\* charges, the empty one included, and the value of each key is the count
\* and the rounded revenue of exactly the charges that satisfy the key's
\* predicate: all.all.all is the total, the mm segments count only
\* Machine-Made charges that are not invoices, and Human-Made and Invoice
\* have no plan-type or subtype keys.
C20_Segments ==
  pc = "returned computeSegments" =>
    /\ DOMAIN ret = DOMAIN KeyParts
    /\ Cardinality(DOMAIN ret) = 16
    /\ \A k \in DOMAIN ret :
         /\ DOMAIN ret[k] = {"count", "revenue"}
         /\ ret[k].count = Cardinality(SegmentOfArg(k))
         /\ ret[k].revenue =
              RoundCents(SumOver([i \in SegmentOfArg(k) |-> arg[i].amount],
                                 SegmentOfArg(k)))
    /\ ret["all.all.all"].count = Len(arg)
    /\ \A k \in DOMAIN ret : KeyParts[k][1] \in {"hm", "inv"} =>
         KeyParts[k][2] = "all" /\ KeyParts[k][3] = "all"

\* the call has returned for a Machine-Made invoice and a Machine-Made top-up
C20_Witness ==
  /\ pc = "returned computeSegments"
  /\ Len(arg) = 2
  /\ \E i \in 1..2 : arg[i].product = "Machine-Made" /\ arg[i].planType = "Invoice"
  /\ ret["all.all.all"].count = 2 /\ ret["mm.all.all"].count = 1
  /\ ret["mm.prepaid.topup"].count = 1 /\ ret["inv.all.all"].count = 1

(***************************************************************************)
(* utils: getWeekStart(date).  A date is its UTC calendar date <<y, m, d>>: *)
(* setUTCDate keeps the time of day and formatDate cuts it off.            *)
(***************************************************************************)
isLeapYear(y) == (y % 4 = 0 /\ y % 100 # 0) \/ y % 400 = 0

daysInMonth(y, m) ==
  IF m = 2 THEN (IF isLeapYear(y) THEN 29 ELSE 28)
  ELSE IF m \in {4, 6, 9, 11} THEN 30 ELSE 31

\* the number of days from 1970-01-01 to the first day of year y
RECURSIVE daysBeforeYear(_)
daysBeforeYear(y) ==
  IF y <= 1970 THEN 0
  ELSE daysBeforeYear(y - 1) + (IF isLeapYear(y - 1) THEN 366 ELSE 365)

\* the number of days of year y before its month m
RECURSIVE daysBeforeMonth(_, _)
daysBeforeMonth(y, m) ==
  IF m <= 1 THEN 0 ELSE daysBeforeMonth(y, m - 1) + daysInMonth(y, m - 1)

\* the day number of a date, 1970-01-01 being day 0
dayNumber(date) ==
  daysBeforeYear(date[1]) + daysBeforeMonth(date[1], date[2]) + date[3] - 1

\* Date.prototype.getUTCDay: 0 is Sunday, and 1970-01-01 was a Thursday
getUTCDay(date) == (dayNumber(date) + 4) % 7

\* Date.prototype.setUTCDate(n) for n from -5 to the length of the month: a
\* day below 1 counts back from the end of the previous month
setUTCDate(date, n) ==
  IF n >= 1 THEN <<date[1], date[2], n>>
  ELSE LET y == IF date[2] = 1 THEN date[1] - 1 ELSE date[1]
           m == IF date[2] = 1 THEN 12 ELSE date[2] - 1
       IN <<y, m, daysInMonth(y, m) + n>>

\* a variant without the case of the Sunday
getWeekStartMondayAhead(date) ==
  setUTCDate(date, date[3] - getUTCDay(date) + 1)

getWeekStart(date) ==
  LET day == getUTCDay(date)
      diff == date[3] - day + (IF day = 0 THEN -6 ELSE 1)
  IN setUTCDate(date, diff)

GetWeekStart ==
  /\ pc = "getWeekStart"
  /\ ret' = getWeekStart(arg)
  /\ pc' = "returned getWeekStart"
  /\ UNCHANGED <<arg, aggVars, locals, effects>>

NextGetWeekStart == GetWeekStart

MaxYears == 3

\* every date of the years from 2023 on, a leap year among them
Dates ==
  {date \in (2023..(2023 + MaxYears - 1)) \X (1..12) \X (1..31) :
     date[3] <= daysInMonth(date[1], date[2])}

InitGetWeekStart == \E date \in Dates : Called("getWeekStart", date)

SpecGetWeekStart == InitGetWeekStart /\ [][NextGetWeekStart]_vars

\* C21: getWeekStart maps every date to the Monday (UTC) of the ISO week that
\* holds it: the result is a Monday, on or before the date and at most 6 days
\* earlier (a Sunday maps to the Monday six days before, a Monday to itself),
\* also when that Monday lies in the previous month or year; getWeekStart of
\* the result is the result.
C21_WeekStart ==
  pc = "returned getWeekStart" =>
    /\ getUTCDay(ret) = 1
    /\ ret[3] \in 1..daysInMonth(ret[1], ret[2])
    /\ dayNumber(arg) - dayNumber(ret) \in 0..6
    /\ getUTCDay(arg) = 0 => dayNumber(arg) - dayNumber(ret) = 6
    /\ getUTCDay(arg) = 1 => ret = arg
    /\ getWeekStart(ret) = ret

\* the call has returned for a Sunday whose Monday lies in the previous year
C21_Witness ==
  /\ pc = "returned getWeekStart"
  /\ getUTCDay(arg) = 0
  /\ ret[1] = arg[1] - 1 /\ ret[2] = 12 /\ arg[2] = 1

(***************************************************************************)
(* Runs over several weeks of one month and a week of the next month       *)
(***************************************************************************)
MaxMonthRows == 2

\* two ad rows of half a cent in two weeks of June and a row in July
MonthAds ==
  { Ad(W1, 5, "NL", "Transcription", "Machine-Made", "NB"),
    Ad(W2, 5, "NL", "Transcription", "Human-Made", "NB"),
    Ad(W3, 100000, "DE", "Brand", "Brand", "Brand") }

\* HubSpot amounts are parseFloat of a free decimal
MonthDeals ==
  { Deal(W1, "Contact_2", "SQL", "Won", 50005),
    Deal(W2, "", "Customer", "Won", 1235),
    Deal(W3, "Contact_2", "Lead", "Open", 0) }

MonthCharges ==
  << Charge(W1, 10000, "Prepaid", "Top-Up", "Machine-Made", "NL", "", ""),
     Charge(W2, 2550, "Subscription", "Update", "Human-Made", "DE", "", "") >>

MonthForms == <<Form(W1, "Contact_2", "Organic", 2), Form(W2, "Contact_2", "Organic", 1)>>

InitMonthly ==
  \/ \E ads \in SeqsUpTo(MonthAds, MaxMonthRows),
        deals \in SeqsUpTo(MonthDeals, MaxMonthRows),
        charges \in {SubSeq(MonthCharges, 1, k) : k \in 0..2},
        forms \in {<<>>, MonthForms} :
       Start(Raw(ads, charges, deals, forms, <<>>))
  \/ Start(CorruptRaw)

SpecMonthly == InitMonthly /\ [][Next]_vars

MonthlyDone == pc \in {"kpis", "subs", "write", "done"}

\* the positions in the week list of the weeks of month
WeeksIn(month) == {i \in 1..Len(weeks) : getMonth(weeks[i]) = month}

\* the sum of the field f of the buckets of list at the positions in S
SumField(list, f, S) == SumOver([i \in S |-> list[i][f]], S)

FunnelCounts == {"leads", "mqls", "mqlsFromLeads", "sqls", "sqlsFromLeads", "won"}

\* the month list is the sorted duplicate-free set of the month prefixes of the
\* weeks, and every week lies in exactly one month
MonthListOfWeeks ==
  /\ {monthlyData[i].month : i \in 1..Len(monthlyData)}
       = {getMonth(weeks[i]) : i \in 1..Len(weeks)}
  /\ \A i \in 1..(Len(monthlyData) - 1) :
       StrLess(monthlyData[i].month, monthlyData[i + 1].month)
  /\ \A i \in 1..Len(weeks) :
       Cardinality({j \in 1..Len(monthlyData) :
                      monthlyData[j].month = getMonth(weeks[i])}) = 1

\* every monthly count is the sum of the weekly counts of its weeks, and so
\* are the totals over all months and over all weeks
MonthlyCounts ==
  /\ \A j \in 1..Len(monthlyData) : \A f \in FunnelCounts :
       monthlyData[j][f] = SumField(weeklyFunnel, f, WeeksIn(monthlyData[j].month))
  /\ \A f \in FunnelCounts :
       SumField(monthlyData, f, 1..Len(monthlyData))
         = SumField(weeklyFunnel, f, 1..Len(weeks))

\* C22 as stated: the month list is the sorted duplicate-free set of the
\* YYYY-MM prefixes of the week list, every week belongs to exactly one month,
\* and each monthly count and each monthly sum (adsCost, wonRevenue,
\* stripeRevenue) equals the sum of the weekly values of the weeks of the month.
C22_Original ==
  MonthlyDone =>
    /\ MonthListOfWeeks
    /\ MonthlyCounts
    /\ \A j \in 1..Len(monthlyData) :
         LET m == monthlyData[j]
         IN /\ m.adsCost = SumField(weeklyAds, "totalCost", WeeksIn(m.month))
            /\ m.wonRevenue = SumField(weeklyFunnel, "wonRevenue", WeeksIn(m.month))
            /\ m.stripeRevenue = SumField(weeklyStripe, "totalRevenue", WeeksIn(m.month))

\* the rounding of the monthly sum and of each weekly sum: 0.005 each
MonthTolerance(month) == 5 * (Cardinality(WeeksIn(month)) + 1)

\* C22: the same for the month list and the counts; stripeRevenue, summed from
\* whole cents, equals the sum of the weekly revenues; adsCost and wonRevenue
\* are rounded from the rows of the month, and equal the sum of the separately
\* rounded weekly values up to 0.005 for each week and for the month.
C22_MonthlyRollup ==
  MonthlyDone =>
    /\ MonthListOfWeeks
    /\ MonthlyCounts
    /\ \A j \in 1..Len(monthlyData) :
         LET m == monthlyData[j]
         IN /\ Dist(m.adsCost, SumField(weeklyAds, "totalCost", WeeksIn(m.month)))
                 <= MonthTolerance(m.month)
            /\ Dist(m.wonRevenue, SumField(weeklyFunnel, "wonRevenue", WeeksIn(m.month)))
                 <= MonthTolerance(m.month)
            /\ m.stripeRevenue = SumField(weeklyStripe, "totalRevenue", WeeksIn(m.month))

\* a month of two weeks, each with an ad row of half a cent: the weekly costs
\* sum to 0.02, the monthly cost is 0.01
C22_Witness ==
  /\ MonthlyDone
  /\ \E j \in 1..Len(monthlyData) :
       /\ Cardinality(WeeksIn(monthlyData[j].month)) = 2
       /\ monthlyData[j].adsCost = 10
       /\ SumField(weeklyAds, "totalCost", WeeksIn(monthlyData[j].month)) = 20
  /\ Len(monthlyData) = 2

(***************************************************************************)
(* Runs in which the sources have records in different weeks               *)
(***************************************************************************)
InitSeries == InitWeeks \/ InitSubs

SpecSeries == InitSeries /\ [][Next]_vars

\* whether some record of rows has the week w in its field f
HasRecordIn(rows, f, w) ==
  \E i \in 1..Len(rows) : f \in DOMAIN rows[i] /\ rows[i][f] = w

\* each weekly series follows the week list, entry by entry
SeriesFollowWeeks ==
  /\ \A i \in 1..(Len(weeks) - 1) : StrLess(weeks[i], weeks[i + 1])
  /\ \A s \in {"ads", "funnel", "stripe", "ga4", "subs"} :
       /\ Len(output.weekly[s]) = Len(weeks)
       /\ \A i \in 1..Len(weeks) : output.weekly[s][i].week = weeks[i]
  /\ weeks # <<>> =>
       /\ output.dateRange.start = weeks[1]
       /\ output.dateRange.end = weeks[Len(weeks)]

\* the entry of a source in a week in which it has no record
ZeroEntries ==
  \A i \in 1..Len(weeks) :
    LET w == weeks[i]
        a == output.weekly.ads[i]
        f == output.weekly.funnel[i]
        c == output.weekly.stripe[i]
        g == output.weekly.ga4[i]
        u == output.weekly.subs[i]
    IN /\ ~HasRecordIn(googleAds, "week", w) =>
            /\ a.totalCost = 0 /\ a.mmCost = 0 /\ a.hmCost = 0 /\ a.brandCost = 0
            /\ DOMAIN a.byCountry = {} /\ DOMAIN a.byProduct = {} /\ DOMAIN a.byBU = {}
       /\ ~HasRecordIn(hubspotDeals, "createWeek", w) =>
            /\ f.mqls = 0 /\ f.mqlsFromLeads = 0 /\ f.sqls = 0 /\ f.sqlsFromLeads = 0
            /\ f.won = 0 /\ f.wonRevenue = 0
            /\ DOMAIN f.byChannel = {} /\ DOMAIN f.byCountry = {}
       /\ ~HasRecordIn(formSubmissions, "week", w) => f.leads = 0
       /\ ~HasRecordIn(stripeCharges, "week", w) =>
            /\ c.count = 0 /\ c.totalRevenue = 0
            /\ \A k \in DOMAIN c.seg : c.seg[k] = [count |-> 0, revenue |-> 0]
            /\ DOMAIN c.byPlanType = {} /\ DOMAIN c.byProduct = {}
            /\ DOMAIN c.byCountry = {} /\ DOMAIN c.byCurrency = {}
            /\ DOMAIN c.byChannel = {}
       /\ ~HasRecordIn(ga4Purchases, "week", w) =>
            g.purchases = 0 /\ g.purchaseRevenue = 0
       /\ ~HasRecordIn(stripeSubs, "createdWeek", w) =>
            /\ u.newSubs = 0 /\ u.newMrr = 0
            /\ u.byPlan.monthly.new = 0 /\ u.byPlan.yearly.new = 0
       /\ ~HasRecordIn(stripeSubs, "canceledWeek", w) =>
            /\ u.churnedSubs = 0 /\ u.churnedMrr = 0
            /\ u.byPlan.monthly.churned = 0 /\ u.byPlan.yearly.churned = 0

\* C23: each of the five weekly series of the output (ads, funnel, stripe,
\* ga4, subs) has exactly one entry per week of the week list, in the same
\* ascending order, and dateRange runs from the first to the last week; a week
\* in which a source has no record yields for that source an entry whose
\* counts and sums are 0 and whose breakdowns are empty.
C23_WeeklySeries == Written => SeriesFollowWeeks /\ ZeroEntries

\* a written document of two weeks or more with a week that has a charge and
\* no ad row
C23_Witness ==
  /\ Written
  /\ Len(weeks) >= 2
  /\ \E i \in 1..Len(weeks) :
       /\ ~HasRecordIn(googleAds, "week", weeks[i])
       /\ output.weekly.stripe[i].count > 0
       /\ output.weekly.ads[i].totalCost = 0

(***************************************************************************)
(* The order of the enrichment phases                                      *)
(***************************************************************************)
InitEnrich == InitForms \/ InitCharges

SpecEnrich == InitEnrich /\ [][Next]_vars

\* both lookup maps hold every entry that the loaded GA4 records give them
LookupsBuilt ==
  /\ formToChannel = buildFormToChannel(formSubmissions)
  /\ txLookup = buildTxLookup(ga4Purchases)

\* the step writes the channel of a deal
EnrichesDeal ==
  \E i \in 1..Len(hubspotDeals) :
    Len(hubspotDeals') = Len(hubspotDeals) /\ hubspotDeals'[i].channel # hubspotDeals[i].channel

\* the step writes the channel of a charge
AttributesCharge ==
  \E i \in 1..Len(stripeCharges) :
    Len(stripeCharges') = Len(stripeCharges) /\ stripeCharges'[i].channel # stripeCharges[i].channel

\* the step derives the canonical fields of a legacy charge
NormalizesCharge ==
  \E i \in 1..Len(stripeCharges) :
    /\ Len(stripeCharges') = Len(stripeCharges)
    /\ IsLegacy(stripeCharges[i])
    /\ ~IsLegacy(stripeCharges'[i])

\* the step computes a weekly or monthly aggregate
Aggregates ==
  \/ weeklyAds' # weeklyAds
  \/ weeklyFunnel' # weeklyFunnel
  \/ weeklyStripe' # weeklyStripe
  \/ monthlyData' # monthlyData

\* every deal and every charge carries its channel
AllEnriched ==
  /\ \A i \in 1..Len(hubspotDeals) : hubspotDeals[i].channel # Undef
  /\ \A i \in 1..Len(stripeCharges) :
       stripeCharges[i].channel # Undef /\ ~IsLegacy(stripeCharges[i])

\* a legacy charge is matched on the identifiers of its metadata
MetadataMatches ==
  ChargesAttributed =>
    \A i \in 1..Len(stripeCharges) :
      (IsLegacy(Loaded(i)) /\ IsKey(Loaded(i).metadata.paymentIdentifier)) =>
        Adopts(stripeCharges[i], Loaded(i).metadata.paymentIdentifier)

PhaseOrder ==
  /\ (EnrichesDeal \/ AttributesCharge \/ NormalizesCharge) => LookupsBuilt
  /\ AttributesCharge =>
       \A i \in 1..Len(stripeCharges) : ~IsLegacy(stripeCharges[i])
  /\ Aggregates => AllEnriched /\ LookupsBuilt
  /\ pc \notin {"load", "lookups"} =>
       formToChannel' = formToChannel /\ txLookup' = txLookup

\* C24: the enrichment phases run in order: both lookup maps are completely
\* built before the first deal or charge is enriched; the legacy
\* normalization of every charge is complete before the channel attribution
\* of any charge, so that the identifiers of the metadata take part in the
\* matching; the enrichment is complete before any weekly or monthly
\* aggregate is computed; neither lookup map changes once enrichment starts.
C24_PhaseOrder == [][PhaseOrder]_vars /\ []MetadataMatches

\* a legacy charge has been attributed the channel of the purchase that its
\* metadata names, and the aggregates have been computed
C24_Witness ==
  /\ WeeklyDone
  /\ DOMAIN txLookup # {}
  /\ \E i \in 1..Len(stripeCharges) :
       /\ IsLegacy(Loaded(i))
       /\ IsKey(Loaded(i).metadata.paymentIdentifier)
       /\ stripeCharges[i].channel = txLookup[Loaded(i).metadata.paymentIdentifier].channel

(***************************************************************************)
(* Ties of the form tally and repeated transaction ids                     *)
(***************************************************************************)
MaxTieForms == 3
MaxTiePurchases == 3

TieForms ==
  {Form(W1, "Contact_2", c, n) : c \in {"Organic", "Direct", "2", "10"}, n \in {1, 2}}

TiePurchases ==
  { Purchase(W1, "tx1", "Organic", "c1"),
    Purchase(W1, "tx1", "Direct", "c2"),
    Purchase(W1, "tx2", "Direct", "c3"),
    Purchase(W1, "", "Referral", "c4") }

InitTies ==
  \/ \E forms \in SeqsUpTo(TieForms, MaxTieForms) :
       Start(Raw(<<>>, <<>>, <<>>, forms, <<>>))
  \/ \E purchases \in SeqsUpTo(TiePurchases, MaxTiePurchases) :
       Start(Raw(<<>>, <<>>, <<>>, <<>>, purchases))
  \/ Start(CorruptRaw)

SpecTies == InitTies /\ [][Next]_vars

LookupsDone == pc \notin {"load", "lookups", "threw"}

\* the position of the first submission of the form with the channel
FirstPosition(id, c) ==
  CHOOSE i \in 1..Len(formSubmissions) :
    /\ formSubmissions[i].formId = id /\ formSubmissions[i].channel = c
    /\ \A j \in 1..(i - 1) :
         ~(formSubmissions[j].formId = id /\ formSubmissions[j].channel = c)

\* the tied channel that the submissions of the form mention first
FirstEncountered(id) ==
  CHOOSE c \in MajorityChannels(id) :
    \A e \in MajorityChannels(id) : FirstPosition(id, c) <= FirstPosition(id, e)

\* the number that an integer-index name denotes
IndexValue(k) == (CHOOSE n \in 1..Len(ArrayIndices) : ArrayIndices[n] = k) - 1

\* the tied channels whose names are integer indices
TiedIndices(id) == MajorityChannels(id) \cap Range(ArrayIndices)

\* the tied channel with the lowest integer-index name
LowestIndex(id) ==
  CHOOSE c \in TiedIndices(id) :
    \A e \in TiedIndices(id) : IndexValue(c) <= IndexValue(e)

\* the transaction lookup keeps the last purchase of each transaction id
LastPurchaseWins ==
  \A i \in 1..Len(ga4Purchases) :
    LET p == ga4Purchases[i]
    IN (/\ Truthy(p.transactionId)
        /\ \A j \in (i + 1)..Len(ga4Purchases) :
             ga4Purchases[j].transactionId # p.transactionId)
       => /\ p.transactionId \in DOMAIN txLookup
          /\ txLookup[p.transactionId] = [channel |-> p.channel, campaign |-> p.campaign]

\* what the code does on a tie: the tied channel that the submissions mention
\* first when no tied channel has an integer-index name, and otherwise the
\* tied channel with the lowest integer-index name
TieBreakAsEnumerated ==
  LookupsDone =>
    \A id \in FormIds : Truthy(id) =>
      formToChannel[id] = (IF TiedIndices(id) = {} THEN FirstEncountered(id)
                           ELSE LowestIndex(id))

MaxRetries == 4

\* what fn may resolve to and what it may reject with
Results == {"r1", "r2"}
Errors == {"e1", "e2"}

RECURSIVE pow(_, _)
\* Math.pow(b, e)
pow(b, e) == IF e = 0 THEN 1 ELSE b * pow(b, e - 1)

\* a variant that waits the same time after every failure
waitOfConstant(i) == 1000

\* const wait = Math.pow(2, i) * 1000
waitOf(i) == pow(2, i) * 1000

\* for (let i = 0; ...
RetryEnter ==
  /\ pc = "retry"
  /\ locals' = [i |-> 0]
  /\ pc' = "retry loop"
  /\ UNCHANGED <<arg, ret, effects, aggVars>>

\* i < maxRetries; ... await fn(): the call is made
RetryCall ==
  /\ pc = "retry loop"
  /\ locals.i < arg.maxRetries
  /\ effects' = Append(effects, [kind |-> "call"])
  /\ pc' = "retry await"
  /\ UNCHANGED <<arg, ret, locals, aggVars>>

\* return await fn(): fn resolves
RetryReturn ==
  /\ pc = "retry await"
  /\ \E v \in Results :
       /\ effects' = Append(effects, [kind |-> "resolve", value |-> v])
       /\ ret' = v
  /\ pc' = "retry returned"
  /\ UNCHANGED <<arg, locals, aggVars>>

\* catch (err) { if (i === maxRetries - 1) throw err; ... setTimeout(r, wait)
RetryCatch ==
  /\ pc = "retry await"
  /\ \E e \in Errors :
       /\ ret' = e
       /\ IF locals.i = arg.maxRetries - 1
          THEN /\ effects' = Append(effects, [kind |-> "reject", error |-> e])
               /\ pc' = "retry threw"
          ELSE /\ effects' = effects \o <<[kind |-> "reject", error |-> e],
                                          [kind |-> "setTimeout", ms |-> waitOf(locals.i)]>>
               /\ pc' = "retry sleep"
  /\ UNCHANGED <<arg, locals, aggVars>>

\* the timer fires: i++
RetryWake ==
  /\ pc = "retry sleep"
  /\ locals' = [locals EXCEPT !.i = locals.i + 1]
  /\ pc' = "retry loop"
  /\ UNCHANGED <<arg, ret, effects, aggVars>>

NextRetry == RetryEnter \/ RetryCall \/ RetryReturn \/ RetryCatch \/ RetryWake

InitRetry == \E n \in 1..MaxRetries : Called("retry", [maxRetries |-> n])

\* fn settles and timers fire: a pending step of retry is eventually taken
SpecRetry == InitRetry /\ [][NextRetry]_vars /\ WF_vars(NextRetry)

\* the positions of the events of a kind
EventsOf(kind) == {k \in 1..Len(effects) : effects[k].kind = kind}

\* the number of events of a kind before position k
Before(kind, k) == Cardinality({j \in EventsOf(kind) : j < k})

RetrySafe ==
  /\ Cardinality(EventsOf("call")) <= arg.maxRetries
  \* a call is made only when every earlier call has settled
  /\ \A k \in EventsOf("call") :
       Before("call", k) = Before("resolve", k) + Before("reject", k)
  \* nothing follows the first success
  /\ \A k \in EventsOf("resolve") : k = Len(effects)
  \* the wait after the failure number i (from 0) is 2^i seconds, and a
  \* failure of the last attempt is followed by no wait
  /\ \A k \in EventsOf("setTimeout") :
       /\ effects[k - 1].kind = "reject"
       /\ effects[k].ms = pow(2, Before("reject", k) - 1) * 1000
       /\ Before("reject", k) < arg.maxRetries
  /\ \A k \in EventsOf("reject") :
       (k < Len(effects) /\ Before("reject", k) < arg.maxRetries - 1)
         => effects[k + 1].kind = "setTimeout"
  /\ pc = "retry returned" =>
       /\ effects[Len(effects)] = [kind |-> "resolve", value |-> ret]
       /\ Cardinality(EventsOf("resolve")) = 1
  /\ pc = "retry threw" =>
       /\ effects[Len(effects)] = [kind |-> "reject", error |-> ret]
       /\ Cardinality(EventsOf("reject")) = arg.maxRetries
       /\ Cardinality(EventsOf("call")) = arg.maxRetries
       /\ EventsOf("resolve") = {}

\* C26: retry(fn, maxRetries) calls fn at most maxRetries times, one call after
\* the other; it returns the result of the first successful call and calls fn
\* no more; after the failed call number i (from 0) it waits 2^i seconds, only
\* if another attempt remains; when all attempts fail it rethrows the last
\* error without waiting; and it always settles.
C26_Retry ==
  /\ []RetrySafe
  /\ <>(pc \in {"retry returned", "retry threw"})

\* two failures, waits of one and of two seconds, then a success
C26_Witness ==
  /\ pc = "retry returned"
  /\ Cardinality(EventsOf("reject")) = 2
  /\ \E k \in EventsOf("setTimeout") : effects[k].ms = 2000

(***************************************************************************)
(* The pagination loops of the Stripe fetchers: fetchAllCharges, fetchSubs *)
(***************************************************************************)
MaxItems == 3
MaxLimit == 2

\* the ids of the objects that the Stripe account holds, oldest request first
StripeIds == <<"id_1", "id_2", "id_3", "id_4", "id_5">>

\* the collections that the account may hold behind an endpoint
Collections ==
  UNION {[1..n -> {"succeeded", "failed"}] : n \in 0..MaxItems}

ItemsOf(statuses) ==
  [k \in 1..Len(statuses) |-> [id |-> StripeIds[k], status |-> statuses[k]]]

\* GET /v1/<endpoint>?limit=..&starting_after=..: the objects after the cursor,
\* at most limit of them, and whether more follow
stripeGet(items, startingAfter, limit) ==
  LET from == IF startingAfter = Undef THEN 0
              ELSE CHOOSE k \in 1..Len(items) : items[k].id = startingAfter
      rest == SubSeq(items, from + 1, Len(items))
  IN [data |-> SubSeq(rest, 1, IF Len(rest) < limit THEN Len(rest) ELSE limit),
      has_more |-> Len(rest) > limit]

\* fetchAllCharges: if (charge.status !== 'succeeded') continue; charges.push(charge)
\* fetchSubs: subs.push(...data.data)
kept(fn, data) ==
  IF fn = "fetchAllCharges"
  THEN SelectSeq(data, LAMBDA c : c.status = "succeeded")
  ELSE data

\* a variant that takes the cursor from the last object that was kept
cursorOfKept(fn, data) ==
  IF kept(fn, data) = <<>> THEN Undef ELSE kept(fn, data)[Len(kept(fn, data))].id

\* startingAfter = data.data[data.data.length - 1].id
cursorOf(fn, data) == data[Len(data)].id

\* const charges = []; let startingAfter = undefined
FetchEnter ==
  /\ pc \in {"fetchAllCharges", "fetchSubs"}
  /\ locals' = [fn |-> pc, list |-> <<>>, startingAfter |-> Undef]
  /\ pc' = "fetch loop"
  /\ UNCHANGED <<arg, ret, effects, aggVars>>

\* if (startingAfter) params.starting_after = startingAfter; retry(() => stripeGet(...))
FetchRequest ==
  /\ pc = "fetch loop"
  /\ effects' = Append(effects, [kind |-> "request",
                                 starting_after |-> locals.startingAfter])
  /\ pc' = "fetch await"
  /\ UNCHANGED <<arg, ret, locals, aggVars>>

\* the page arrives: push its objects; if (!data.has_more) break; else move the cursor
FetchPage ==
  /\ pc = "fetch await"
  /\ LET data == stripeGet(arg.items, locals.startingAfter, arg.limit)
         list == locals.list \o kept(locals.fn, data.data)
     IN /\ effects' = Append(effects, [kind |-> "response", data |-> data.data,
                                       has_more |-> data.has_more])
        /\ IF ~data.has_more
           THEN /\ locals' = [locals EXCEPT !.list = list]
                /\ ret' = list
                /\ pc' = "fetch returned"
           ELSE /\ locals' = [locals EXCEPT !.list = list,
                                !.startingAfter = cursorOf(locals.fn, data.data)]
                /\ ret' = ret
                /\ pc' = "fetch loop"
  /\ UNCHANGED <<arg, aggVars>>

\* retry gives up on the request: the error leaves the fetcher
FetchThrow ==
  /\ pc = "fetch await"
  /\ \E e \in Errors : ret' = e
  /\ effects' = Append(effects, [kind |-> "error"])
  /\ pc' = "fetch threw"
  /\ UNCHANGED <<arg, locals, aggVars>>

NextFetch == FetchEnter \/ FetchRequest \/ FetchPage \/ FetchThrow

InitFetch ==
  \E fn \in {"fetchAllCharges", "fetchSubs"}, statuses \in Collections,
     limit \in 1..MaxLimit :
    Called(fn, [items |-> ItemsOf(statuses), limit |-> limit])

\* every request is answered or given up
SpecFetch == InitFetch /\ [][NextFetch]_vars /\ WF_vars(NextFetch)

FetchSafe ==
  \* one page at a time: requests and answers alternate
  /\ \A k \in 1..Len(effects) :
       effects[k].kind = (IF k % 2 = 1 THEN "request"
                          ELSE IF effects[k].kind = "error" THEN "error" ELSE "response")
  \* the first request carries no cursor, a later one the id of the last
  \* object of the page before it, whatever its status
  /\ \A k \in EventsOf("request") :
       effects[k].starting_after =
         (IF k = 1 THEN Undef
          ELSE effects[k - 1].data[Len(effects[k - 1].data)].id)
  \* nothing is requested after a page that says has_more: false
  /\ \A k \in EventsOf("response") : ~effects[k].has_more => k = Len(effects)
  \* the objects of all pages, in order, each once
  /\ pc = "fetch returned" =>
       /\ ret = kept(locals.fn, arg.items)
       /\ ~effects[Len(effects)].has_more
       /\ \A a, b \in 1..Len(ret) : a # b => ret[a].id # ret[b].id
       /\ locals.fn = "fetchAllCharges" =>
            \A a \in 1..Len(ret) : ret[a].status = "succeeded"

\* C27: the pagination loops of the Stripe fetchers (fetchAllCharges,
\* fetchSubs) request the pages one at a time, stop after the first page with
\* has_more false, pass as starting_after the id of the last object of the
\* previous page (for charges whatever its status), and return the objects of
\* all pages in order without loss or duplication, fetchAllCharges keeping
\* only those with status succeeded; the loop ends whenever the server
\* eventually answers has_more false.
C27_Pagination ==
  /\ []FetchSafe
  /\ <>(pc \in {"fetch returned", "fetch threw"})

\* charges fetched over two pages or more, the first of which ends with a
\* failed charge
C27_Witness ==
  /\ pc = "fetch returned"
  /\ locals.fn = "fetchAllCharges"
  /\ Cardinality(EventsOf("request")) >= 2
  /\ effects[2].data[Len(effects[2].data)].status = "failed"
  /\ ret # <<>>

(***************************************************************************)
(* The weekly series against the totals                                    *)
(***************************************************************************)
MaxReconRows == 2

ReconAds == {<<>>, <<Ad(W1, 1000, "NL", "Transcription", "Other", "NB")>>,
             <<Ad(NoWeek, 1000, "NL", "Transcription", "Other", "NB")>>}

ReconDeals ==
  {Deal(w, "", "SQL", st, 0) : w \in {NoWeek, W1, W2}, st \in {"Won", "Open"}}

ReconForms ==
  {Form(NoWeek, "Contact_2", "Organic", 2), Form(W1, "Contact_2", "Organic", 1),
   Form(W2, "Contact_2", "Direct", 3)}

ReconCharges ==
  {Charge(w, 10000, "Prepaid", "Top-Up", "Machine-Made", "NL", "", "") : w \in {W1, W2}}

InitRecon ==
  \/ \E ads \in ReconAds, deals \in SeqsUpTo(ReconDeals, MaxReconRows),
        charges \in SeqsUpTo(ReconCharges, MaxReconRows) :
       Start(Raw(ads, charges, deals, <<>>, <<>>))
  \/ \E ads \in ReconAds, forms \in SeqsUpTo(ReconForms, MaxReconRows) :
       Start(Raw(ads, <<>>, <<>>, forms, <<>>))
  \/ Start(CorruptRaw)

SpecRecon == InitRecon /\ [][Next]_vars

AllWeeks == 1..Len(weeks)

\* the deals and the form submissions whose week is no week of the week list
DealsOutside == {i \in 1..Len(hubspotDeals) : hubspotDeals[i].createWeek \notin Range(weeks)}
FormsOutside == {i \in 1..Len(formSubmissions) : formSubmissions[i].week \notin Range(weeks)}

\* the number of weekly buckets that count the record with the given week
BucketsCounting(w) == Cardinality({i \in AllWeeks : weeks[i] = w})

\* the weekly sums equal the totals of the KPIs
Reconciles ==
  /\ SumField(output.weekly.funnel, "mqls", AllWeeks) = output.kpis.totalMQLs
  /\ SumField(output.weekly.funnel, "won", AllWeeks) = output.kpis.totalWon
  /\ SumField(output.weekly.funnel, "leads", AllWeeks) = output.kpis.totalLeads
  /\ SumField(output.weekly.stripe, "count", AllWeeks) = Len(stripeCharges)

\* the statement as given: every record lies in exactly one weekly bucket and
\* the weekly sums equal the totals
C28_Original ==
  Written =>
    /\ \A r \in Range(hubspotDeals) : BucketsCounting(r.createWeek) = 1
    /\ \A r \in Range(formSubmissions) : BucketsCounting(r.week) = 1
    /\ \A r \in Range(stripeCharges) : BucketsCounting(r.week) = 1
    /\ Reconciles

\* C28: every charge, every deal that has a createWeek and every form
\* submission that has a week is counted in exactly one weekly bucket; a deal
\* or form submission without a week is counted in one bucket when an ad row
\* or charge puts its (empty) week on the week list and in none otherwise,
\* while the KPI totals count it always. Summed over all weeks,
\* weekly.stripe.count equals the number of charges, and weekly.funnel.mqls,
\* won and leads equal kpis.totalMQLs, totalWon and totalLeads less the
\* records that lie in no bucket; they equal the totals when every deal and
\* form submission has a week.
C28_WeeklyReconcile ==
  Written =>
    /\ \A r \in Range(stripeCharges) : BucketsCounting(r.week) = 1
    /\ \A r \in Range(hubspotDeals) :
         /\ BucketsCounting(r.createWeek) <= 1
         /\ HasWeek(r.createWeek) => BucketsCounting(r.createWeek) = 1
    /\ \A r \in Range(formSubmissions) :
         /\ BucketsCounting(r.week) <= 1
         /\ HasWeek(r.week) => BucketsCounting(r.week) = 1
    /\ SumField(output.weekly.stripe, "count", AllWeeks) = Len(stripeCharges)
    /\ SumField(output.weekly.funnel, "mqls", AllWeeks)
         = output.kpis.totalMQLs - Cardinality(DealsOutside)
    /\ SumField(output.weekly.funnel, "won", AllWeeks)
         = output.kpis.totalWon
             - Cardinality({i \in DealsOutside : isWon(hubspotDeals[i])})
    /\ SumField(output.weekly.funnel, "leads", AllWeeks)
         = output.kpis.totalLeads
             - SumOver([i \in FormsOutside |-> formSubmissions[i].count], FormsOutside)
    /\ (DealsOutside = {} /\ FormsOutside = {}) => Reconciles

\* two deals of one week, one of them won, and a charge, all counted
C28_Witness ==
  /\ Written
  /\ Len(hubspotDeals) = 2
  /\ hubspotDeals[1].createWeek = hubspotDeals[2].createWeek
  /\ HasWeek(hubspotDeals[1].createWeek)
  /\ stripeCharges # <<>>
  /\ output.kpis.totalWon = 1
  /\ SumField(output.weekly.funnel, "mqls", AllWeeks) = 2
  /\ Reconciles

(***************************************************************************)
(* The nesting of the funnel stages                                        *)
(***************************************************************************)
MaxFunnelDeals == 3

\* deals of one week, with and without form, lifecycle stage SQL and status Won
FunnelDeals ==
  {Deal(W1, formId, stage, status, 100000) :
     formId \in {"", "Contact_2"}, stage \in {"", "SQL"}, status \in {"Won", "Open"}}

InitFunnel ==
  \/ \E deals \in SeqsUpTo(FunnelDeals, MaxFunnelDeals) :
       Start(Raw(<<>>, <<>>, deals, <<>>, <<>>))
  \/ Start(CorruptRaw)

SpecFunnel == InitFunnel /\ [][Next]_vars

\* the stage counts of a funnel bucket that are filters of one another
StagesNested(b) ==
  /\ b.sqls <= b.mqls
  /\ b.sqlsFromLeads <= b.sqls
  /\ b.sqlsFromLeads <= b.mqlsFromLeads
  /\ b.mqlsFromLeads <= b.mqls
  /\ b.won <= b.mqls

\* a rate between 0 and 100, in tenths of a percent
IsPercentage(x) == x.kind = "num" /\ 0 <= x.v /\ x.v <= 1000

\* what holds of every funnel bucket: the nesting apart from won against sqls,
\* and the range of mqlToSql
FunnelNestedApartFromWon ==
  Written =>
    /\ \A i \in 1..Len(output.weekly.funnel) : StagesNested(output.weekly.funnel[i])
    /\ \A i \in 1..Len(output.monthly) :
         /\ StagesNested(output.monthly[i])
         /\ IsPercentage(output.monthly[i].mqlToSql)

\* C29: in every weekly and monthly funnel bucket the stage counts are
\* nested, won <= sqls <= mqls, with sqlsFromLeads <= sqls and
\* sqlsFromLeads <= mqlsFromLeads <= mqls, so that the monthly conversion
\* rates mqlToSql and sqlToWon lie between 0 and 100 inclusive.
C29_FunnelNested ==
  Written =>
    /\ \A i \in 1..Len(output.weekly.funnel) :
         StagesNested(output.weekly.funnel[i])
           /\ output.weekly.funnel[i].won <= output.weekly.funnel[i].sqls
    /\ \A i \in 1..Len(output.monthly) :
         /\ StagesNested(output.monthly[i])
         /\ output.monthly[i].won <= output.monthly[i].sqls
         /\ IsPercentage(output.monthly[i].mqlToSql)
         /\ IsPercentage(output.monthly[i].sqlToWon)

(***************************************************************************)
(* The weekly subscription metrics against the subscriptions               *)
(***************************************************************************)
\* the subscriptions that have the week field f
SubsWith(f) ==
  {j \in 1..Len(stripeSubs) :
     f \in DOMAIN stripeSubs[j] /\ HasWeek(stripeSubs[j][f])}

\* the subscriptions whose week field f is a week of the week list
SubsListed(f) == {j \in SubsWith(f) : stripeSubs[j][f] \in Range(weeks)}

\* the statement as given: every subscription that has the week is counted
C30_Original ==
  Written =>
    /\ SumField(output.weekly.subs, "newSubs", AllWeeks)
         = Cardinality(SubsWith("createdWeek"))
    /\ SumField(output.weekly.subs, "churnedSubs", AllWeeks)
         = Cardinality(SubsWith("canceledWeek"))
    /\ SumField(output.weekly.subs, "newMrr", AllWeeks) = MrrOf(SubsWith("createdWeek"))
    /\ SumField(output.weekly.subs, "churnedMrr", AllWeeks)
         = MrrOf(SubsWith("canceledWeek"))

\* C30: every subscription whose createdWeek is a week of the week list is
\* counted as new in exactly one weekly.subs bucket, and every subscription
\* whose canceledWeek is a week of the week list as churned in exactly one;
\* a subscription whose week is not on the week list (which is built from the
\* ad rows, charges, deals, form submissions and purchases only) is counted
\* in none. Summed over all weeks, newSubs and churnedSubs equal the numbers
\* of the subscriptions whose createdWeek, canceledWeek is on the week list,
\* and newMrr, churnedMrr the sums of their monthlyAmount.
C30_SubsReconcile ==
  Written =>
    /\ \A j \in SubsListed("createdWeek") :
         BucketsCounting(stripeSubs[j].createdWeek) = 1
    /\ \A j \in SubsListed("canceledWeek") :
         BucketsCounting(stripeSubs[j].canceledWeek) = 1
    /\ SumField(output.weekly.subs, "newSubs", AllWeeks)
         = Cardinality(SubsListed("createdWeek"))
    /\ SumField(output.weekly.subs, "churnedSubs", AllWeeks)
         = Cardinality(SubsListed("canceledWeek"))
    /\ SumField(output.weekly.subs, "newMrr", AllWeeks) = MrrOf(SubsListed("createdWeek"))
    /\ SumField(output.weekly.subs, "churnedMrr", AllWeeks)
         = MrrOf(SubsListed("canceledWeek"))

\* two subscriptions created in different weeks of the week list, one of them
\* cancelled in a week of the list
C30_Witness ==
  /\ Written
  /\ Len(weeks) >= 2
  /\ Cardinality(SubsListed("createdWeek")) = 2
  /\ \E j, k \in SubsListed("createdWeek") :
       stripeSubs[j].createdWeek # stripeSubs[k].createdWeek
  /\ SubsListed("canceledWeek") # {}
  /\ SumField(output.weekly.subs, "newSubs", AllWeeks) = 2
  /\ SumField(output.weekly.subs, "newMrr", AllWeeks) > 0

====
